---- MODULE Spec2Model ----
(***************************************************************************)
(* A model of the reactivity core of the Vue 2 sources under src/:        *)
(*   - Dep (observer/dep.js), Watcher and the scheduler                    *)
(*     (observer/scheduler.js holds both), defineReactive                  *)
(*     (observer/index.js).                                                *)
(* JavaScript is single threaded: every top-level event (a write made by   *)
(* application code, the creation of a watcher, a teardown, the microtask  *)
(* that runs flushSchedulerQueue) runs to completion.  The synchronous,    *)
(* re-entrant call chains (setter -> notify -> update -> queueWatcher /    *)
(* run -> get -> getter -> reactiveGetter -> depend -> addDep ...) are     *)
(* operators from program state to program state; an action applies one.   *)
(* The flush is cut into FlushStart / FlushStep (one iteration of the for  *)
(* loop) / FlushFinish so that its intermediate states are visible; no     *)
(* other event is enabled while it is in progress.                         *)
(* The build modelled is the development build                             *)
(* (process.env.NODE_ENV !== 'production').                                *)
(***************************************************************************)
EXTENDS Integers, Sequences, FiniteSets, TLC

(* ------------------------------ bounds -------------------------------- *)
MaxWatchers == 2

\* The watchers of the specification SpecFan, where one callback notifies two
\* watchers.
MaxFanWatchers == 3
MaxWrites == 3
MaxObjs == 2
MaxLen == 2
MaxRoot == 1
MaxCh == 4
MaxTextCh == 2
MaxTreeCh == 2
MaxSiblings == 3
MaxAncestors == 2
MaxHooks == 2
MaxCaptureWatchers == 1
MaxListWatchers == 1
MaxRenders == 3

\* The component instances (each one a root instance: new Vue(...).$mount()).
MaxVms == 2

(* ------------------------- program constants -------------------------- *)
MAX_UPDATE_COUNT == 100

(* ------------------------- values and keys ---------------------------- *)
\* The reactive record R has the keys in Keys; each key has its own Dep
\* (defineReactive: const dep = new Dep()), named by the key.
Keys == {"a", "b"}
\* The Dep of the Observer with a given number (Observer.constructor:
\* this.dep = new Dep()).
ObDep(i) == <<"ob1", "ob2", "ob3", "ob4", "ob5">>[i]
Deps == Keys \cup {ObDep(i) : i \in 1..MaxObjs}
\* Primitive values a property can hold.  "NaN" is the one value that is
\* not strictly equal to itself.
Values == {"0", "1", "NaN"}
Undefined == "undefined"

\* JavaScript's === on the modelled values.
StrictEq(x, y) == x = y /\ x # "NaN"

\* No watcher: the value of Dep.target when nothing is being evaluated (the
\* code has null at first and undefined later, and tests it for truth only).
NoTarget == 0

\* The watcher of the computed property: initState creates the computed
\* watchers (initComputed) before any other watcher.
ComputedId == 1

VARIABLES
  \* ---- configuration
  async,        \* config.async
  env,          \* the environment and the rest of the configuration
  \* ---- defineReactive closures and Dep
  val,          \* val[k]: the backing value of property k
  subs,         \* subs[k]: Dep.subs of the Dep of property k (watcher ids)
  target,       \* Dep.target
  targetStack,  \* targetStack
  \* ---- watchers
  ws,           \* ws[id]: the watcher with that id; Len(ws) is Watcher's uid
  vm,           \* vm[c]: the component instance c; it owns the watchers created for it
  \* ---- scheduler
  queue,        \* queue (watcher ids)
  has,          \* the ids with has[id] = true
  circular,     \* circular[id], 0 when absent
  waiting,
  flushing,
  index,        \* index (0-based, as in the code)
  activatedChildren,  \* activatedChildren (component instances)
  ticks,        \* flushSchedulerQueue callbacks handed to nextTick, not yet run
  pc,           \* where the flushSchedulerQueue call stands: idle, loop, post
  \* ---- observation (history) variables
  since,        \* what happened since the last flush ended
  flush,        \* what happened in the flush in progress / the last flush
  ev            \* what the last event did

coreVars == <<async, env, val, subs, target, targetStack, ws, vm, queue, has, circular,
              waiting, flushing, index, activatedChildren, ticks, pc, since, flush, ev>>

VARIABLES
  \* ---- observed containers (observer/index.js, array.js)
  heap,           \* heap[o]: the container (plain record, list, ...) o
  obs,            \* obs[i]: the i-th Observer constructed
  shouldObserve,  \* shouldObserve
  ssr,            \* isServerRendering()
  olog            \* what the last call of observe / of a list method did

obsVars == <<heap, obs, shouldObserve, ssr, olog>>

VARIABLES
  \* ---- the child-list diff (vdom/patch.js)
  patch,          \* the state of one call of updateChildren
  \* ---- rendering (instance/render.js, instance/lifecycle.js)
  rnd             \* vm._vnode and the last call of vm._render

vdomVars == <<patch, rnd>>

vars == <<coreVars, obsVars, vdomVars>>

\* The program state as one record, for the operators below.
Cur ==
  [async |-> async, env |-> env, val |-> val, subs |-> subs, target |-> target,
   targetStack |-> targetStack, ws |-> ws, vm |-> vm, queue |-> queue, has |-> has,
   circular |-> circular, waiting |-> waiting, flushing |-> flushing,
   index |-> index, activatedChildren |-> activatedChildren, ticks |-> ticks, pc |-> pc, since |-> since,
   flush |-> flush, ev |-> ev,
   ret |-> Undefined, exc |-> FALSE]

CommitCore(s) ==
  /\ async' = s.async
  /\ env' = s.env
  /\ val' = s.val
  /\ subs' = s.subs
  /\ target' = s.target
  /\ targetStack' = s.targetStack
  /\ ws' = s.ws
  /\ vm' = s.vm
  /\ queue' = s.queue
  /\ has' = s.has
  /\ circular' = s.circular
  /\ waiting' = s.waiting
  /\ flushing' = s.flushing
  /\ index' = s.index
  /\ activatedChildren' = s.activatedChildren
  /\ ticks' = s.ticks
  /\ pc' = s.pc
  /\ since' = s.since
  /\ flush' = s.flush
  /\ ev' = s.ev

Commit(s) == CommitCore(s) /\ UNCHANGED <<obsVars, vdomVars>>

(* ----------------------------- helpers -------------------------------- *)
\* The ids a watcher can have.
Ids == 1..MaxFanWatchers

Count(seq, x) == Cardinality({i \in 1..Len(seq) : seq[i] = x})

Elems(seq) == {seq[i] : i \in 1..Len(seq)}

\* A faulty sort that leaves the array as it is.
SortByIdNot(seq) == seq

\* Array.prototype.sort with (a, b) => a.id - b.id: ascending, stable.
RECURSIVE SortById(_)
SortById(seq) ==
  IF Len(seq) <= 1 THEN seq
  ELSE LET rest == SortById(SubSeq(seq, 1, Len(seq) - 1))
           x == seq[Len(seq)]
           n == Cardinality({i \in 1..Len(rest) : rest[i] <= x})
       IN SubSeq(rest, 1, n) \o <<x>> \o SubSeq(rest, n + 1, Len(rest))

\* remove(arr, item) of shared/util: drops the first occurrence, if any.
RemoveFirst(seq, x) ==
  IF x \in Elems(seq)
  THEN LET i == CHOOSE i \in 1..Len(seq) :
                  seq[i] = x /\ \A j \in 1..(i - 1) : seq[j] # x
       IN SubSeq(seq, 1, i - 1) \o SubSeq(seq, i + 1, Len(seq))
  ELSE seq

(* ------------------- observation records (history) -------------------- *)
\* ev: what the event that led to this state did.
\*   op, k, w      the event, and the key or the watcher it is about
\*   same          a write: the value written is the value k held before
\*                 it (the same number, or NaN written over NaN)
\*   notified      the Deps on which notify() was called, in order
\*   passes        [d, at, upd, after, done]: notify() was called on Dep d when
\*                 its subs were `at`; the call itself called update() on the
\*                 watchers upd, in order; it ended (done) when the subs of d
\*                 were `after`
\*   updated       the watchers on which update() was called, in order
\*   enq           the watchers on which queueWatcher() was called, in order
\*   ran           the watchers on which run() was called, in order
\*   gets          the watchers whose getter was called, in order
\*   cbs           the watchers whose callback was called, in order
\*   args          <<w, value, oldValue>>: the arguments of those calls
\*   compared      [w, old, new, n, m, stored]: run() of watcher w compared
\*                 the value new, which get() returned, with the stored value
\*                 old, when n callbacks had been called by run() in this
\*                 event; when run() returned, m had been called and the
\*                 stored value was `stored`
\*   evals         [w, target, stack, targetAfter, stackAfter, before, threw]:
\*                 a call of get() of watcher w ended (the inner one first):
\*                 Dep.target and targetStack when it began and when it ended,
\*                 the Deps tracked by the evaluation before it, and whether
\*                 an exception left it
\*   creads        <<c, dirty, n>>: the computed property of watcher c was
\*                 read when c.dirty was as given and n getters had been called
\*   handled       number of calls of handleError
\*   active        teardown: the watcher was active when it was called
\*   thrown        <<w, what>>: the getter or the cb of watcher w threw
\*   threw         an exception left the event uncaught
NoEv ==
  [op |-> "init", k |-> "a", w |-> 0, same |-> FALSE,
   notified |-> <<>>, passes |-> <<>>, updated |-> <<>>, enq |-> <<>>, ran |-> <<>>, gets |-> <<>>,
   evals |-> <<>>, creads |-> <<>>, crets |-> <<>>, deps |-> <<>>,
   captured |-> <<>>, global |-> <<>>, handles |-> <<>>,
   world |-> [items |-> <<>>, observed |-> {}], args |-> <<>>, compared |-> <<>>, cbs |-> <<>>, handled |-> 0, active |-> FALSE, thrown |-> <<>>, threw |-> FALSE]

\* vm[c]: a component instance, after initState and initLifecycle.
\*   watchers          vm._watchers (watcher ids)
\*   watcher           vm._watcher, the render watcher (0: undefined)
\*   isMounted, isBeingDestroyed, isDestroyed
\*                     vm._isMounted, vm._isBeingDestroyed, vm._isDestroyed
Vms == 1..MaxVms

NoVm ==
  [watchers |-> <<>>, watcher |-> 0, isMounted |-> FALSE,
   isBeingDestroyed |-> FALSE, isDestroyed |-> FALSE]

\* since: what happened since the last flush ended, before the next begins.
\*   writes    number of writes made by application code
\*   enq       the watchers on which queueWatcher() was called
\*   multi     the watchers on which queueWatcher() was called twice or more
\*   expect    the watchers that were active, neither lazy nor sync, and had
\*             read key k in their last evaluation when a write changed k
NoSince ==
  [writes |-> 0, enq |-> {}, multi |-> {}, expect |-> {}]

\* olog: what the last call of observe, or of a method of an observed list,
\* did.
\*   op        observe, or the list method
\*   obj       the container the call was made on
\*   had       the Observer the container had before the call (0: none)
\*   ret       the Observer observe returned (0: undefined)
\*   created   the containers for which an Observer was constructed, in order
\*   wrapped   <<o, i>>: defineReactive was applied to property i of o
\*   args      the arguments of the list method
NoOlog ==
  [op |-> "init", obj |-> 0, had |-> 0, ret |-> 0, created |-> <<>>,
   wrapped |-> <<>>, args |-> <<>>]

\* patch: one call of updateChildren(parentElm, oldCh, newCh, _, removeOnly).
\*   pc          idle, loop (in the while loop), done
\*   old0, new0  oldCh and newCh as they were passed
\*   oldCh, newCh, removeOnly, oldStartIdx, oldEndIdx, newStartIdx,
\*   newEndIdx, oldKeyToIdx: as in the code (oldKeyToIdx <<>>: undefined)
\*   dom         parentElm.childNodes (backing nodes, by number)
\*   nextElm     the number of the next backing node created
\*   created, removed, moved: the backing nodes createElm created, removeVnodes
\*               removed, insertBefore moved, in order
\*   patched     <<i, j>>: patchVnode(oldCh[i], newCh[j]) was called
\*   setText     <<elm, text>>: setTextContent(elm, text) was called
\*   inits       <<j, n>>: the init hook of newCh[j] was called when n
\*               backing nodes had been created
\*   roots       the backing nodes that are the root element of a component
\*               instance made by an init hook
\*   error       a DOM call threw
\* and, when the call of updateChildren was made by patch(oldVnode, vnode):
\*   rootOld, rootNew  oldVnode and vnode
\*   branch      the branch patch and patchVnode took: replace (the nodes are
\*               not the same), updateChildren, addVnodes, removeVnodes,
\*               clearText, setText, or none
\*   real        oldVnode was a real element (rootOld is the node
\*               emptyNodeAt made of it)
\*   leaveCb     oldVnode.elm._leaveCb is set
\*   hasParent   oldVnode.elm has a parent node
\*   dom         in the branch replace, the child nodes of that parent;
\*               otherwise the child nodes of oldVnode.elm
\* A virtual node with children: hasCh tells that children is defined.
VTree(key, tag, elm, text, hasCh, ch) ==
  [key |-> key, tag |-> tag, elm |-> elm, text |-> text, init |-> FALSE,
   hasCh |-> hasCh, ch |-> ch]

NoRoot == VTree(0, "undef", 0, Undefined, FALSE, <<>>)

NoPatch ==
  [pc |-> "idle", old0 |-> <<>>, new0 |-> <<>>, oldCh |-> <<>>, newCh |-> <<>>,
   removeOnly |-> FALSE, oldStartIdx |-> 0, oldEndIdx |-> 0, newStartIdx |-> 0,
   newEndIdx |-> 0, oldKeyToIdx |-> <<>>, dom |-> <<>>, nextElm |-> 1,
   created |-> <<>>, removed |-> <<>>, moved |-> <<>>, patched |-> <<>>,
   setText |-> <<>>, inits |-> <<>>, roots |-> {},
   branch |-> "none", rootOld |-> NoRoot, rootNew |-> NoRoot, real |-> FALSE,
   leaveCb |-> FALSE, hasParent |-> TRUE, error |-> FALSE]

\* A virtual tree, as vm._render and vm._update see it: null, the tree of the
\* n-th call of render or of renderError, or the empty (comment) node.
NullVNode == [kind |-> "null", id |-> 0]

\* rnd: the rendering of the component.
\*   pc            idle; rendered: vm._render has returned, vm._update has not
\*                 been called yet
\*   n             the calls of vm._render made
\*   vnode         vm._vnode
\*   current       currentRenderingInstance (0: null)
\*   render, renderError   what the two functions did in the last call
\*   prev          vm._vnode when the last call began
\*   ret           what the last call returned
\*   handled       the calls of handleError in the last call
\*   threw         the last call was left by an exception
NoRnd ==
  [pc |-> "idle", n |-> 0, vnode |-> NullVNode, current |-> 0,
   render |-> "none", renderError |-> "none", prev |-> NullVNode,
   ret |-> NullVNode, handled |-> 0, threw |-> FALSE]

\* flush: the flush in progress, or the last one.
\*   raw       the queue when the flush began, before the sort
\*   pre       the queue when the flush began, after the sort
\*   expect    since.expect when the flush began
\*   multi     since.multi when the flush began
\*   runs      the watchers on which the flush called run(), in order
\*   reenq     <<w, by>>: queueWatcher accepted w while watcher `by` was
\*             being run by the flush, in order
\*   ins       [w, by, index, n, queue]: the same, with the cursor (index) and
\*             the number n of calls of run() at that time, and the queue as
\*             queueWatcher left it
\*   called    the watchers on which queueWatcher() was called during the
\*             flush, accepted or not
\*   warned    the watchers the 'infinite update loop' warning named
\*   afterWarn the watchers run by the flush after a warning
\*   left      the entries that were pending (after the cursor, not yet run)
\*             when the warning was issued
\*   caught    <<w, n, left>>: the callback of user watcher w threw when the
\*             flush had called run() n times and the entries left were pending
\*   hooks     <<hook, c, reset>>: the flush called the lifecycle hook of
\*             component c, in order; reset: the scheduler was in the state
\*             resetSchedulerState leaves (beforeUpdate: not recorded)
\*   done      the flush reached its end (state reset, hooks called)
NoFlush ==
  [raw |-> <<>>, pre |-> <<>>, expect |-> {}, multi |-> {}, runs |-> <<>>,
   reenq |-> <<>>, ins |-> <<>>, called |-> {}, warned |-> <<>>, afterWarn |-> <<>>, left |-> <<>>,
   caught |-> <<>>, hooks |-> <<>>, done |-> FALSE]

(* ----------------------- Dep (observer/dep.js) ------------------------ *)
pushTarget(s, t) ==
  [s EXCEPT !.targetStack = Append(@, t), !.target = t]

popTarget(s) ==
  LET st == SubSeq(s.targetStack, 1, Len(s.targetStack) - 1) IN
  [s EXCEPT !.targetStack = st,
            !.target = IF st = <<>> THEN NoTarget ELSE st[Len(st)]]

addSub(s, d, w) == [s EXCEPT !.subs[d] = Append(@, w)]

removeSub(s, d, w) == [s EXCEPT !.subs[d] = RemoveFirst(@, w)]

(* ------------- Watcher (observer/scheduler.js, 240-491) --------------- *)
\* Every operator below takes the program state and returns the program
\* state after the call; s.ret is the value returned and s.exc says that
\* the call was left by an exception.

\* A faulty addDep that does not look at depIds.
addDepAlwaysSub(s, w, d) ==
  IF d \notin s.ws[w].newDepIds
  THEN addSub([s EXCEPT !.ws[w].newDepIds = @ \cup {d},
                        !.ws[w].newDeps = Append(@, d)], d, w)
  ELSE s

\* Watcher.addDep
addDep(s, w, d) ==
  IF d \notin s.ws[w].newDepIds
  THEN IF d \notin s.ws[w].depIds
       THEN addSub([s EXCEPT !.ws[w].newDepIds = @ \cup {d},
                             !.ws[w].newDeps = Append(@, d)], d, w)
       ELSE [s EXCEPT !.ws[w].newDepIds = @ \cup {d},
                      !.ws[w].newDeps = Append(@, d)]
  ELSE s

\* Dep.depend.  ws[w].reads observes the Deps that reported a read to
\* watcher w (depend() was called while w was Dep.target) in the evaluation
\* of w in progress or, after it, in the last one; ev.deps observes the
\* calls of depend() made under a target, in their order.
depend(s, d) ==
  IF s.target # NoTarget
  THEN addDep([s EXCEPT !.ws[s.target].reads = @ \cup {d},
                        !.ev.deps = Append(@, <<s.target, d>>)], s.target, d)
  ELSE s

\* Watcher.cleanupDeps, lines 385-391
RECURSIVE cleanupLoop(_, _, _)
cleanupLoop(s, w, i) ==
  IF i = 0 THEN s
  ELSE IF s.ws[w].deps[i] \notin s.ws[w].newDepIds
       THEN cleanupLoop(removeSub(s, s.ws[w].deps[i], w), w, i - 1)
       ELSE cleanupLoop(s, w, i - 1)

\* Watcher.cleanupDeps, lines 392-399
cleanupSwap(s, w) ==
  [s EXCEPT !.ws[w].depIds = s.ws[w].newDepIds,
            !.ws[w].newDepIds = {},
            !.ws[w].deps = s.ws[w].newDeps,
            !.ws[w].newDeps = <<>>]

\* A faulty cleanupDeps that removes no subscription.
cleanupDepsKeep(s, w) == cleanupSwap(s, w)

cleanupDeps(s, w) == cleanupSwap(cleanupLoop(s, w, Len(s.ws[w].deps)), w)

\* A faulty logError that throws everywhere.
logErrorThrows(s) == [s EXCEPT !.exc = TRUE]

\* logError (util/error.js, 108-118): outside a browser the error is thrown
logError(s) == [s EXCEPT !.exc = ~s.env.inBrowser]

\* globalHandleError (util/error.js, 84-105)
globalHandleError(s) ==
  IF s.env.errorHandler THEN [s EXCEPT !.exc = FALSE] ELSE logError(s)

\* globalHandleError is called with the error e (observation): <<0, 0>> is
\* the error handleError was called with, <<d, i>> the error thrown by hook
\* i of ancestor d.
globalLog(s, e) == [s EXCEPT !.ev.global = Append(@, <<e[1], e[2], s.target>>)]

\* Hook i of ancestor d is called (observation).
hookLog(s, d, i) == [s EXCEPT !.ev.captured = Append(@, <<d, i, s.target>>)]

RECURSIVE captureHooks(_, _, _)

\* handleError, lines 26-28: the catch clause around the call of a hook;
\* when globalHandleError throws, the error leaves handleError
hookCatch(s, d, i) ==
  IF s.exc THEN [s EXCEPT !.ret = "thrown"] ELSE captureHooks(s, d, i + 1)

\* A faulty handleError that goes on after a hook has returned false.
hookCallNoCapture(s, d, i) ==
  IF s.env.chain[d][i] = "throw"
  THEN hookCatch(globalHandleError(globalLog(s, <<d, i>>)), d, i)
  ELSE captureHooks(s, d, i + 1)

\* handleError, lines 23-28: hooks[i].call(cur, err, vm, info) returns false,
\* returns something else, or throws
hookCall(s, d, i) ==
  IF s.env.chain[d][i] = "false" THEN [s EXCEPT !.ret = "captured"]
  ELSE IF s.env.chain[d][i] = "throw"
  THEN hookCatch(globalHandleError(globalLog(s, <<d, i>>)), d, i)
  ELSE captureHooks(s, d, i + 1)

\* handleError, lines 18-31: the hooks of the ancestors, from the parent of
\* the component up; env.chain[d] are the hooks of ancestor d
captureHooks(s, d, i) ==
  IF d > Len(s.env.chain) THEN s
  ELSE IF i > Len(s.env.chain[d]) THEN captureHooks(s, d + 1, 1)
  ELSE hookCall(hookLog(s, d, i), d, i)

\* handleError, lines 16-33: the body of the try statement
handleErrorTry(s) ==
  IF captureHooks(s, 1, 1).ret = "captured"
  THEN [captureHooks(s, 1, 1) EXCEPT !.exc = FALSE]
  ELSE IF captureHooks(s, 1, 1).ret = "thrown"
  THEN captureHooks(s, 1, 1)
  ELSE globalHandleError(globalLog(captureHooks(s, 1, 1), <<0, 0>>))

\* The call of handleError that began in state s ended in state r
\* (observation).
handleLog(s, r) ==
  [r EXCEPT !.ret = s.ret,
            !.ev.handles =
              Append(@, [target |-> s.target, stack |-> s.targetStack,
                         targetAfter |-> r.target, stackAfter |-> r.targetStack,
                         threw |-> r.exc])]

\* handleError (util/error.js, 14-51): tracking is switched off while the
\* error is reported, and the target is restored in the finally clause.
handleError(s) ==
  handleLog(s,
    popTarget(handleErrorTry([pushTarget(s, NoTarget) EXCEPT
                                !.ev.handled = @ + 1, !.ret = "bubble"])))

(* ------------- defineReactive (observer/index.js, 158-235) ------------ *)
\* reactiveGetter.  The values modelled are primitives, so childOb is
\* undefined.
reactiveGetter(s, k) == [depend(s, k) EXCEPT !.ret = s.val[k]]

(* ------------------------- user code of a watcher --------------------- *)
\* The getter (expOrFn) of a watcher:
\*   key   a path 'a': reads property a and returns it
\*   cond  reads a; when a is "1" also reads b and returns it
getterCond(s, g) ==
  IF s.ret = "1" THEN reactiveGetter(s, g.b) ELSE s

\*   throw reads a; when a is "1" it throws
getterThrow(s, w) ==
  IF s.ret = "1"
  THEN [s EXCEPT !.exc = TRUE, !.ev.thrown = Append(@, <<w, "getter">>)]
  ELSE s

\* queueActivatedComponent (scheduler.js, 164-169)
queueActivatedComponent(s, c) ==
  [s EXCEPT !.activatedChildren = Append(@, c)]

\*   keep  the render function of a component with a kept-alive child that
\*         is shown when a is "1": reads a; when it is "1" and the component
\*         is mounted, the patch activates the child through
\*         queueActivatedComponent (the child is named by its parent)
getterKeep(s, w) ==
  IF s.ret = "1" /\ s.vm[s.ws[w].vm].isMounted
  THEN [queueActivatedComponent(s, s.ws[w].vm) EXCEPT !.ret = s.ret]
  ELSE s

RECURSIVE get(_, _)
RECURSIVE reactiveSetter(_, _, _)

\*   copy  reads a, assigns its value to b, then reads b and returns it
getterCopy(s, g) ==
  IF s.exc THEN s ELSE reactiveGetter(s, g.b)

\* Watcher.depend
RECURSIVE watcherDepend(_, _, _)
watcherDepend(s, c, i) ==
  IF i = 0 THEN s
  ELSE watcherDepend(depend(s, s.ws[c].deps[i]), c, i - 1)

\* Watcher.evaluate
evaluateSet(s, c) ==
  IF s.exc THEN s
  ELSE [s EXCEPT !.ws[c].value = s.ret, !.ws[c].dirty = FALSE]

\* The getter of the lazy watcher c was invoked by evaluate() and left state
\* r (observation): calls keeps, for the last two invocations since the last
\* notification, whether the getter threw.
evaluateLog(r, c) ==
  [r EXCEPT !.ws[c].calls =
     IF Len(@) < 2 THEN Append(@, r.exc) ELSE <<@[2], r.exc>>]

evaluate(s, c) == evaluateLog(evaluateSet(get(s, c), c), c)

\* A faulty computedGetter that does not hand the Deps of the computed
\* watcher to the watcher being evaluated.
computedDependNot(s, c) ==
  IF s.exc THEN s ELSE [s EXCEPT !.ret = s.ws[c].value]

\* computedGetter (instance/state.js), lines 363-366
computedDepend(s, c) ==
  IF s.exc THEN s
  ELSE IF s.target # NoTarget
       THEN [watcherDepend(s, c, Len(s.ws[c].deps)) EXCEPT !.ret = s.ws[c].value]
       ELSE [s EXCEPT !.ret = s.ws[c].value]

\* A faulty computedGetter that evaluates on every read.
computedEvaluateAlways(s, c) == evaluate(s, c)

\* computedGetter, lines 354-357
computedEvaluate(s, c) == IF s.ws[c].dirty THEN evaluate(s, c) ELSE s

\* What the computed getter returned (observation).
computedReturned(s) ==
  IF s.exc THEN s ELSE [s EXCEPT !.ev.crets = Append(@, s.ret)]

\* computedGetter: a read of the computed property whose watcher is c
computedGetter(s, c) ==
  computedReturned(
    computedDepend(
      computedEvaluate([s EXCEPT !.ev.creads =
                                   Append(@, <<c, s.ws[c].dirty, Len(s.ev.gets)>>)], c),
      c))

\*   comp  reads the computed property (of watcher ComputedId) and then
\*         property a; returns the value of the computed property
getterComp(s, g) ==
  IF s.exc THEN s ELSE [reactiveGetter(s, g.a) EXCEPT !.ret = s.ret]

\*   list  reads a property whose value is an observed list: the getter of
\*         the property calls childOb.dep.depend() (observer/index.js
\*         196-198); g.a is the Dep of the Observer of the list
getterList(s, g) == [depend(s, g.a) EXCEPT !.ret = "object"]

getter(s, w) ==
  CASE s.ws[w].getter.kind = "key" -> reactiveGetter(s, s.ws[w].getter.a)
    [] s.ws[w].getter.kind = "comp" ->
         getterComp(computedGetter(s, ComputedId), s.ws[w].getter)
    [] s.ws[w].getter.kind = "list" -> getterList(s, s.ws[w].getter)
    [] s.ws[w].getter.kind = "keep" ->
         getterKeep(reactiveGetter(s, s.ws[w].getter.a), w)
    [] s.ws[w].getter.kind = "cond" ->
         getterCond(reactiveGetter(s, s.ws[w].getter.a), s.ws[w].getter)
    [] s.ws[w].getter.kind = "throw" ->
         getterThrow(reactiveGetter(s, s.ws[w].getter.a), w)
    [] s.ws[w].getter.kind = "copy" ->
         getterCopy(reactiveSetter(reactiveGetter(s, s.ws[w].getter.a),
                                   s.ws[w].getter.b, s.val[s.ws[w].getter.a]),
                    s.ws[w].getter)

RECURSIVE run(_, _)

\* A faulty catch clause that reports the error of every watcher.
getCatchReportAll(s, w) ==
  IF s.exc
  THEN IF s.ws[w].user THEN [handleError(s) EXCEPT !.ret = Undefined]
       ELSE [handleError(s) EXCEPT !.exc = TRUE]
  ELSE s

\* Watcher.get, lines 344-349: a user watcher reports the error of its
\* getter, any other rethrows it
getCatch(s, w) ==
  IF s.exc /\ s.ws[w].user
  THEN [handleError(s) EXCEPT !.ret = Undefined]
  ELSE s

\* A faulty get that has no finally clause: the target is popped only when
\* no exception leaves it.
getFinallyNot(s, w) == IF s.exc THEN s ELSE cleanupDeps(popTarget(s), w)

\* Watcher.get, lines 350-360 (traverse touches nothing: the values are
\* primitives and no watcher is deep)
getFinally(s, w) == cleanupDeps(popTarget(s), w)

\* The call of get() that began in state s ended in state r (observation).
getLog(s, r, w) ==
  [r EXCEPT !.ev.evals =
     Append(@, [w |-> w, target |-> s.target, stack |-> s.targetStack,
                targetAfter |-> r.target, stackAfter |-> r.targetStack,
                before |-> s.ws[w].reads, threw |-> r.exc,
                from |-> Len(s.ev.deps), upto |-> Len(r.ev.deps),
                active |-> r.ws[w].active,
                subsAfter |-> {d \in DOMAIN r.subs : w \in Elems(r.subs[d])}])]

\* Watcher.get
get(s, w) ==
  getLog(s,
         getFinally(
           getCatch(getter(pushTarget([s EXCEPT !.ws[w].reads = {},
                                                !.ev.gets = Append(@, w)], w), w), w),
           w),
         w)

(* ----------------- scheduler (observer/scheduler.js, 1-213) ----------- *)
resetSchedulerState(s) ==
  [s EXCEPT !.index = 0, !.queue = <<>>, !.activatedChildren = <<>>, !.has = {},
            !.circular = [i \in Ids |-> 0],
            !.waiting = FALSE, !.flushing = FALSE]

\* flushSchedulerQueue, lines 75-93
flushBegin(s) ==
  [s EXCEPT !.flushing = TRUE, !.queue = SortById(s.queue), !.index = 0,
            !.pc = "loop",
            !.since = NoSince,
            !.flush = [NoFlush EXCEPT !.raw = s.queue,
                                      !.pre = SortById(s.queue),
                                      !.expect = s.since.expect,
                                      !.multi = s.since.multi]]

\* A faulty step that leaves has[id] set when the run begins.
flushBeforeRunKeepHas(s, w) ==
  [s EXCEPT !.flush.runs = Append(@, w)]

\* flushSchedulerQueue, lines 99-106
flushBeforeRun(s, w) ==
  [s EXCEPT !.has = @ \ {w},
            !.flush.runs = Append(@, w),
            !.flush.afterWarn = IF s.flush.warned # <<>> THEN Append(@, w) ELSE @,
            !.flush.hooks = IF /\ s.ws[w].render
                               /\ s.vm[s.ws[w].vm].isMounted
                               /\ ~s.vm[s.ws[w].vm].isDestroyed
                            THEN Append(@, <<"beforeUpdate", s.ws[w].vm, FALSE>>)
                            ELSE @]

\* A faulty flushCircular that warns as soon as the count reaches the limit.
flushCircularAtLimit(s, w) ==
  IF s.circular[w] >= MAX_UPDATE_COUNT
  THEN [s EXCEPT !.pc = "post",
                 !.flush.warned = Append(@, w),
                 !.flush.left = SubSeq(s.queue, s.index + 2, Len(s.queue))]
  ELSE [s EXCEPT !.index = @ + 1]

\* A faulty flushCircular that warns and goes on with the loop.
flushCircularContinue(s, w) ==
  IF s.circular[w] > MAX_UPDATE_COUNT
  THEN [s EXCEPT !.index = @ + 1,
                 !.flush.warned = Append(@, w),
                 !.flush.left = SubSeq(s.queue, s.index + 2, Len(s.queue))]
  ELSE [s EXCEPT !.index = @ + 1]

\* flushSchedulerQueue, lines 113-123
flushCircular(s, w) ==
  IF s.circular[w] > MAX_UPDATE_COUNT
  THEN [s EXCEPT !.pc = "post",
                 !.flush.warned = Append(@, w),
                 !.flush.left = SubSeq(s.queue, s.index + 2, Len(s.queue))]
  ELSE [s EXCEPT !.index = @ + 1]

\* flushSchedulerQueue, lines 111-125
flushAfterRun(s, w) ==
  IF s.exc THEN [s EXCEPT !.pc = "idle"]
  ELSE IF w \in s.has
       THEN flushCircular([s EXCEPT !.circular[w] = @ + 1], w)
       ELSE [s EXCEPT !.index = @ + 1]

\* flushSchedulerQueue, lines 97-125: one iteration of the loop, for
\* index < queue.length
flushIter(s) ==
  flushAfterRun(run(flushBeforeRun(s, s.queue[s.index + 1]),
                    s.queue[s.index + 1]),
                s.queue[s.index + 1])

RECURSIVE flushLoop(_)
flushLoop(s) ==
  IF s.pc = "loop" /\ s.index < Len(s.queue) /\ ~s.exc
  THEN flushLoop(flushIter(s))
  ELSE s

\* The scheduler is in the state resetSchedulerState leaves (observation).
IsReset(s) ==
  /\ s.queue = <<>> /\ s.has = {} /\ s.index = 0 /\ s.activatedChildren = <<>>
  /\ ~s.waiting /\ ~s.flushing

\* callHook(vm, hook), for the hooks the scheduler calls; the hooks of the
\* components modelled are empty.
callHook(s, c, hook) ==
  [s EXCEPT !.flush.hooks = Append(@, <<hook, c, IsReset(s)>>)]

\* callUpdatedHooks (lines 148-158): from the last entry to the first
RECURSIVE callUpdatedHooks(_, _, _)
callUpdatedHooks(s, q, i) ==
  IF i = 0 THEN s
  ELSE IF /\ s.vm[s.ws[q[i]].vm].watcher = q[i]
          /\ s.vm[s.ws[q[i]].vm].isMounted
          /\ ~s.vm[s.ws[q[i]].vm].isDestroyed
       THEN callUpdatedHooks(callHook(s, s.ws[q[i]].vm, "updated"), q, i - 1)
       ELSE callUpdatedHooks(s, q, i - 1)

\* callActivatedHooks (lines 171-176): from the first entry to the last.
\* activateChildComponent calls the hook 'activated' of a component that is
\* not in an inactive tree.
RECURSIVE callActivatedHooks(_, _, _)
callActivatedHooks(s, q, i) ==
  IF i > Len(q) THEN s
  ELSE callActivatedHooks(callHook(s, q[i], "activated"), q, i + 1)

flushEndMark(s) == [s EXCEPT !.pc = "idle", !.flush.done = TRUE]

\* A faulty end of the flush that resets the state after the hooks.
flushHooksBeforeReset(s) ==
  resetSchedulerState(
    callUpdatedHooks(callActivatedHooks(s, s.activatedChildren, 1),
                     s.queue, Len(s.queue)))

\* The queue without the repeated entries.
RECURSIVE Distinct(_)
Distinct(q) ==
  IF q = <<>> THEN <<>>
  ELSE LET d == Distinct(SubSeq(q, 1, Len(q) - 1))
       IN IF q[Len(q)] \in Elems(d) THEN d ELSE Append(d, q[Len(q)])

\* A faulty end of the flush that notifies each component once.
flushHooksDistinct(s) ==
  callUpdatedHooks(
    callActivatedHooks(resetSchedulerState(s), s.activatedChildren, 1),
    Distinct(s.queue), Len(Distinct(s.queue)))

\* flushSchedulerQueue, lines 127-135
flushHooks(s) ==
  callUpdatedHooks(
    callActivatedHooks(resetSchedulerState(s), s.activatedChildren, 1),
    s.queue, Len(s.queue))

\* flushSchedulerQueue, lines 127-143
flushEnd(s) == flushEndMark(flushHooks(s))

flushTail(s) == IF s.exc THEN s ELSE flushEnd(s)

flushSchedulerQueue(s) == flushTail(flushLoop(flushBegin(s)))

\* queueWatcher, lines 194-198: the place of a watcher queued during a flush
RECURSIVE scanBack(_, _, _, _)
scanBack(q, i, idx, id) ==
  IF i > idx /\ q[i + 1] > id THEN scanBack(q, i - 1, idx, id) ELSE i

spliceAt(q, i, id) == SubSeq(q, 1, i + 1) \o <<id>> \o SubSeq(q, i + 2, Len(q))

\* A faulty placement that puts the watcher queued during a flush directly
\* behind the cursor.
spliceInAtCursor(q, idx, id) == spliceAt(q, idx, id)

\* A faulty placement that appends the watcher queued during a flush.
spliceInAtEnd(q, idx, id) == Append(q, id)

spliceIn(q, idx, id) == spliceAt(q, scanBack(q, Len(q) - 1, idx, id), id)

\* queueWatcher, lines 187-199
queuePush(s, w) ==
  [s EXCEPT !.has = @ \cup {w},
            !.queue = IF ~s.flushing THEN Append(@, w)
                      ELSE spliceIn(@, s.index, w),
            !.flush.reenq = IF s.flushing /\ s.pc = "loop"
                            THEN Append(@, <<w, s.queue[s.index + 1]>>)
                            ELSE @,
            !.flush.ins = IF s.flushing /\ s.pc = "loop"
                          THEN Append(@, [w |-> w, by |-> s.queue[s.index + 1],
                                          index |-> s.index,
                                          n |-> Len(s.flush.runs),
                                          queue |-> spliceIn(s.queue, s.index, w)])
                          ELSE @]

\* A faulty queueFlush that does not look at waiting.
queueFlushAlways(s) ==
  IF ~s.async
  THEN flushSchedulerQueue([s EXCEPT !.waiting = TRUE])
  ELSE [s EXCEPT !.waiting = TRUE, !.ticks = @ + 1]

\* queueWatcher, lines 202-211
queueFlush(s) ==
  IF ~s.waiting
  THEN IF ~s.async
       THEN flushSchedulerQueue([s EXCEPT !.waiting = TRUE])
       ELSE [s EXCEPT !.waiting = TRUE, !.ticks = @ + 1]
  ELSE s

queueLog(s, w) ==
  [s EXCEPT !.ev.enq = Append(@, w),
            !.since.enq = IF s.flushing THEN @ ELSE @ \cup {w},
            !.since.multi = IF ~s.flushing /\ w \in s.since.enq
                            THEN @ \cup {w} ELSE @,
            !.flush.called = IF s.flushing THEN @ \cup {w} ELSE @]

\* A faulty queueWatcher that does not look at has[id].
queueWatcherAlways(s, w) == queueFlush(queuePush(queueLog(s, w), w))

queueWatcher(s, w) ==
  IF w \notin s.has
  THEN queueFlush(queuePush(queueLog(s, w), w))
  ELSE queueLog(s, w)

\* Watcher.update
updateLog(s, w) == [s EXCEPT !.ev.updated = Append(@, w)]

update(s, w) ==
  IF s.ws[w].lazy THEN [updateLog(s, w) EXCEPT !.ws[w].dirty = TRUE, !.ws[w].calls = <<>>]
  ELSE IF s.ws[w].sync THEN run(updateLog(s, w), w)
  ELSE queueWatcher(updateLog(s, w), w)

\* A call of notify() of Dep d begins: it is pass number
\* Len(s.ev.passes) + 1 of the event (observation).
notifyLog(s, d) ==
  [s EXCEPT !.ev.notified = Append(@, d),
            !.ev.passes = Append(@, [d |-> d, at |-> s.subs[d], upd |-> <<>>,
                                     after |-> <<>>, done |-> FALSE])]

\* Dep.notify, lines 51-53; n is the number of the pass
RECURSIVE notifyLoop(_, _, _, _)
notifyLoop(s, sn, i, n) ==
  IF s.exc THEN s
  ELSE IF i > Len(sn)
       THEN [s EXCEPT !.ev.passes[n].after = s.subs[s.ev.passes[n].d],
                      !.ev.passes[n].done = TRUE]
       ELSE notifyLoop(update([s EXCEPT !.ev.passes[n].upd = Append(@, sn[i])],
                              sn[i]),
                       sn, i + 1, n)

\* A faulty loop that walks this.subs itself, not a copy of it.
RECURSIVE notifyLoopLive(_, _, _)
notifyLoopLive(s, i, n) ==
  IF s.exc THEN s
  ELSE IF i > Len(s.subs[s.ev.passes[n].d])
       THEN [s EXCEPT !.ev.passes[n].after = s.subs[s.ev.passes[n].d],
                      !.ev.passes[n].done = TRUE]
       ELSE notifyLoopLive(
              update([s EXCEPT !.ev.passes[n].upd =
                                 Append(@, s.subs[s.ev.passes[n].d][i])],
                     s.subs[s.ev.passes[n].d][i]),
              i + 1, n)

\* A faulty notify that takes no copy of this.subs.
notifyLive(s, d) == notifyLoopLive(notifyLog(s, d), 1, Len(s.ev.passes) + 1)

\* A faulty notify whose loop starts at the second subscriber.
notifyFromSecond(s, d) ==
  notifyLoop(notifyLog(s, d),
             IF ~s.async THEN SortById(s.subs[d]) ELSE s.subs[d], 2,
             Len(s.ev.passes) + 1)

\* Dep.notify
notify(s, d) ==
  notifyLoop(notifyLog(s, d),
             IF ~s.async THEN SortById(s.subs[d]) ELSE s.subs[d], 1,
             Len(s.ev.passes) + 1)

\* The watchers a change of k has to reach (observation only).
Readers(s, k) ==
  {w \in 1..Len(s.ws) :
     /\ s.ws[w].active /\ ~s.ws[w].lazy /\ ~s.ws[w].sync
     /\ k \in s.ws[w].reads}

\* A faulty comparison that lacks the NaN clause of line 214.
SameValueStrict(newVal, value) == StrictEq(newVal, value)

\* reactiveSetter (observer/index.js, 207-233), line 214
SameValue(newVal, value) ==
  StrictEq(newVal, value) \/ (~StrictEq(newVal, newVal) /\ ~StrictEq(value, value))

reactiveSetter(s, k, newVal) ==
  IF SameValue(newVal, s.val[k]) THEN s
  ELSE notify([s EXCEPT !.val[k] = newVal,
                        !.since.expect =
                           IF s.flushing THEN @ ELSE @ \cup Readers(s, k)],
              k)

\* The callback (cb) of a watcher:
\*   none    does nothing
\*   set     writes v to property k
\*   toggle  reads property k and writes the other one of "0", "1" to it
\*   throw   throws
callbackLog(s, w) == [s EXCEPT !.ev.cbs = Append(@, w)]

callbackToggle(s, k) == reactiveSetter(s, k, IF s.ret = "0" THEN "1" ELSE "0")

callback(s, w) ==
  CASE s.ws[w].cb.kind = "none" -> callbackLog(s, w)
    [] s.ws[w].cb.kind = "set" ->
         reactiveSetter(callbackLog(s, w), s.ws[w].cb.k, s.ws[w].cb.v)
    [] s.ws[w].cb.kind = "toggle" ->
         callbackToggle(reactiveGetter(callbackLog(s, w), s.ws[w].cb.k),
                        s.ws[w].cb.k)
    [] s.ws[w].cb.kind = "throw" ->
         [callbackLog(s, w) EXCEPT !.exc = TRUE,
                                   !.ev.thrown = Append(@, <<w, "cb">>)]
    [] s.ws[w].cb.kind = "setthrow" ->
         [reactiveSetter(callbackLog(s, w), s.ws[w].cb.k, s.ws[w].cb.v)
            EXCEPT !.exc = TRUE, !.ev.thrown = Append(@, <<w, "cb">>)]

\* Watcher.run, lines 440-449
runAfterCb(s, w) ==
  IF s.exc /\ s.ws[w].user
  THEN handleError(
         [s EXCEPT !.flush.caught =
            IF s.pc = "loop"
            THEN Append(@, <<w, Len(s.flush.runs),
                             SubSeq(s.queue, s.index + 2, Len(s.queue))>>)
            ELSE @])
  ELSE s

\* Watcher.run, lines 437-438 and the arguments of cb.call (observation)
runSetValue(s, w) ==
  [s EXCEPT !.ws[w].value = s.ret,
            !.ev.args = Append(@, <<w, s.ret, s.ws[w].value>>)]

\* Watcher.run, lines 428-450
runCompare(s, w) ==
  IF s.exc THEN s
  ELSE IF ~StrictEq(s.ret, s.ws[w].value) \/ s.ret = "object" \/ s.ws[w].deep
       THEN runAfterCb(callback(runSetValue(s, w), w), w)
       ELSE s

\* The comparison made by run() in state s, which led to state r
\* (observation).
runAfterGet(s, w) ==
  IF s.exc THEN s
  ELSE [runCompare(s, w) EXCEPT !.ev.compared =
          Append(@, [w |-> w, old |-> s.ws[w].value, new |-> s.ret,
                     n |-> Len(s.ev.args),
                     m |-> Len(runCompare(s, w).ev.args),
                     stored |-> runCompare(s, w).ws[w].value])]

runLog(s, w) == [s EXCEPT !.ev.ran = Append(@, w)]

\* A faulty run that does not test active.
runInactive(s, w) == runAfterGet(get(runLog(s, w), w), w)

\* Watcher.run
run(s, w) ==
  IF s.ws[w].active
  THEN runAfterGet(get(runLog(s, w), w), w)
  ELSE runLog(s, w)

\* Watcher.teardown, lines 484-487
RECURSIVE teardownLoop(_, _, _)
teardownLoop(s, w, i) ==
  IF i = 0 THEN s
  ELSE teardownLoop(removeSub(s, s.ws[w].deps[i], w), w, i - 1)

\* A faulty teardown that leaves the subscriptions in place.
teardownKeepSubs(s, w) ==
  IF s.ws[w].active
  THEN [s EXCEPT !.ws[w].active = FALSE,
                 !.vm[s.ws[w].vm].watchers =
                    IF ~s.vm[s.ws[w].vm].isBeingDestroyed
                    THEN RemoveFirst(@, w) ELSE @]
  ELSE s

\* Watcher.teardown
teardown(s, w) ==
  IF s.ws[w].active
  THEN [teardownLoop(s, w, Len(s.ws[w].deps)) EXCEPT
          !.ws[w].active = FALSE,
          !.vm[s.ws[w].vm].watchers =
             IF ~s.vm[s.ws[w].vm].isBeingDestroyed
             THEN RemoveFirst(@, w) ELSE @]
  ELSE s

\* Vue.prototype.$destroy, lines 364-367
RECURSIVE destroyLoop(_, _, _)
destroyLoop(s, c, i) ==
  IF i = 0 THEN s
  ELSE destroyLoop(teardown(s, s.vm[c].watchers[i]), c, i - 1)

\* Vue.prototype.$destroy, lines 361-363
destroyRender(s, c) ==
  IF s.vm[c].watcher # 0 THEN teardown(s, s.vm[c].watcher) ELSE s

\* Vue.prototype.$destroy of component c, as far as the watchers and the
\* flags are concerned (lines 340-376)
destroy(s, c) ==
  IF s.vm[c].isBeingDestroyed THEN s
  ELSE [destroyLoop(destroyRender([s EXCEPT !.vm[c].isBeingDestroyed = TRUE], c),
                    c, Len(s.vm[c].watchers))
          EXCEPT !.vm[c].isDestroyed = TRUE]

\* Watcher.constructor, lines 266-302
NewWatcherRec(cfg) ==
  [getter |-> cfg.getter, cb |-> cfg.cb, user |-> cfg.user, lazy |-> cfg.lazy,
   sync |-> cfg.sync, deep |-> cfg.deep, render |-> cfg.render, vm |-> cfg.vm,
   active |-> TRUE, dirty |-> cfg.lazy, deps |-> <<>>, newDeps |-> <<>>,
   depIds |-> {}, newDepIds |-> {}, value |-> Undefined, reads |-> {},
   calls |-> <<>>]

\* Watcher.constructor, lines 326-328
newWatcherValue(s, id) ==
  IF s.exc THEN s ELSE [s EXCEPT !.ws[id].value = s.ret]

\* Watcher.constructor, lines 266-302
newWatcherInit(s, cfg) ==
  [s EXCEPT !.ws = Append(@, NewWatcherRec(cfg)),
            !.vm[cfg.vm].watcher = IF cfg.render THEN Len(s.ws) + 1 ELSE @,
            !.vm[cfg.vm].watchers = Append(@, Len(s.ws) + 1)]

\* new Watcher(vm, expOrFn, cb, options, isRenderWatcher)
newWatcher(s, cfg) ==
  IF cfg.lazy THEN newWatcherInit(s, cfg)
  ELSE newWatcherValue(get(newWatcherInit(s, cfg), Len(s.ws) + 1), Len(s.ws) + 1)

\* mountComponent (instance/lifecycle.js), lines 479-500: the render watcher
\* is created and the instance, a root, is marked as mounted
mountComponent(s, cfg) ==
  IF newWatcher(s, cfg).exc THEN newWatcher(s, cfg)
  ELSE [newWatcher(s, cfg) EXCEPT !.vm[cfg.vm].isMounted = TRUE]

\* A watcher is created: a render watcher by mountComponent, any other by
\* initState or vm.$watch.
create(s, cfg) ==
  IF cfg.render THEN mountComponent(s, cfg) ELSE newWatcher(s, cfg)

(* ------------------------------ the events ---------------------------- *)
\* The watchers application code creates.
Cfg(g, c, user, lazy, sync, render) ==
  [getter |-> g, cb |-> c, user |-> user, lazy |-> lazy, sync |-> sync,
   deep |-> FALSE, render |-> render, vm |-> 1]

GKey(k) == [kind |-> "key", a |-> k, b |-> "a"]
GCond == [kind |-> "cond", a |-> "a", b |-> "b"]
CNone == [kind |-> "none", k |-> "a", v |-> "0"]
CSet(k, v) == [kind |-> "set", k |-> k, v |-> v]
CToggle(k) == [kind |-> "toggle", k |-> k, v |-> "0"]
GThrow(k) == [kind |-> "throw", a |-> k, b |-> "a"]
CThrow == [kind |-> "throw", k |-> "a", v |-> "0"]
CSetThrow(k, v) == [kind |-> "setthrow", k |-> k, v |-> v]

WatcherMenu ==
  { Cfg(GKey("a"), CNone, TRUE, FALSE, FALSE, FALSE),        \* vm.$watch('a', noop)
    Cfg(GKey("b"), CSet("a", "1"), TRUE, FALSE, FALSE, FALSE),
    Cfg(GCond, CNone, FALSE, FALSE, FALSE, TRUE),            \* a render watcher
    Cfg(GKey("b"), CNone, FALSE, TRUE, FALSE, FALSE),        \* a computed property
    Cfg(GKey("b"), CNone, TRUE, FALSE, TRUE, FALSE) }        \* a sync watcher

LoopMenu ==
  { Cfg(GKey("a"), CToggle("a"), TRUE, FALSE, FALSE, FALSE), \* rewrites what it watches
    Cfg(GKey("a"), CNone, TRUE, FALSE, FALSE, FALSE),
    Cfg(GKey("b"), CNone, FALSE, FALSE, FALSE, TRUE) }

\* An event starts: the observation of the last event is replaced, and that
\* of the last flush is dropped once the flush is over.
Event(s, op, k, w) ==
  [s EXCEPT !.ev = [NoEv EXCEPT !.op = op, !.k = k, !.w = w],
            !.flush = IF s.flush.done THEN NoFlush ELSE @]

Done(s) == Commit([s EXCEPT !.ev.threw = s.exc])

\* The environment and configuration a flush runs in.
\*   inBrowser     inBrowser || inWeex, with a console (util/error.js 113)
\*   errorHandler  config.errorHandler is set (to a handler that returns)
\*   chain         the errorCaptured hooks of the ancestors of the component,
\*                 from its parent up: chain[d][i] is what hook i of
\*                 ancestor d does with an error (returns false, returns
\*                 something else, throws)
Browser == [inBrowser |-> TRUE, errorHandler |-> FALSE, chain |-> <<>>]

InitCore ==
  /\ async = TRUE
  /\ subs = [d \in Deps |-> <<>>]
  /\ target = NoTarget
  /\ targetStack = <<>>
  /\ ws = <<>>
  /\ vm = [c \in Vms |-> NoVm]
  /\ queue = <<>>
  /\ has = {}
  /\ circular = [i \in Ids |-> 0]
  /\ waiting = FALSE
  /\ flushing = FALSE
  /\ index = 0
  /\ activatedChildren = <<>>
  /\ ticks = 0
  /\ pc = "idle"
  /\ since = NoSince
  /\ flush = NoFlush
  /\ ev = NoEv

\* No container exists.
InitNoObs ==
  /\ heap = <<>>
  /\ obs = <<>>
  /\ shouldObserve = TRUE
  /\ ssr = FALSE
  /\ olog = NoOlog

Init ==
  /\ val \in [Keys -> Values]
  /\ env = Browser
  /\ InitCore
  /\ InitNoObs
  /\ patch = NoPatch
  /\ rnd = NoRnd

\* Application code creates a watcher.
NewWatcher ==
  /\ pc = "idle"
  /\ Len(ws) < MaxWatchers
  /\ \E cfg \in WatcherMenu :
       Done(create(Event(Cur, "new", "a", Len(ws) + 1), cfg))

NewLoopWatcher ==
  /\ pc = "idle"
  /\ Len(ws) < MaxWatchers
  /\ \E cfg \in LoopMenu :
       Done(create(Event(Cur, "new", "a", Len(ws) + 1), cfg))

\* Application code assigns R[k] = v.
Write ==
  /\ pc = "idle"
  /\ since.writes < MaxWrites
  /\ \E k \in Keys, v \in Values :
       Done(reactiveSetter([Event(Cur, "write", k, 0) EXCEPT
                              !.ev.same = (v = val[k]),
                              !.since.writes = @ + 1],
                           k, v))

\* Application code tears a watcher down.
Teardown ==
  /\ pc = "idle"
  /\ \E w \in 1..Len(ws) :
       Done(teardown([Event(Cur, "teardown", "a", w) EXCEPT
                        !.ev.active = ws[w].active], w))

\* The microtask handed to nextTick starts: flushSchedulerQueue is entered.
FlushStart ==
  /\ pc = "idle"
  /\ ticks > 0
  /\ Done(flushBegin([Event(Cur, "flushStart", "a", 0) EXCEPT
                        !.ticks = @ - 1]))

\* One iteration of the loop of flushSchedulerQueue.
FlushStep ==
  /\ pc = "loop"
  /\ index < Len(queue)
  /\ Done(flushIter(Event(Cur, "flushStep", "a", queue[index + 1])))

\* The loop of flushSchedulerQueue is left; the rest of the function runs.
FlushFinish ==
  /\ \/ pc = "post"
     \/ pc = "loop" /\ index >= Len(queue)
  /\ Done(flushEnd(Event(Cur, "flushFinish", "a", 0)))

Next ==
  \/ NewWatcher
  \/ Write
  \/ Teardown
  \/ FlushStart
  \/ FlushStep
  \/ FlushFinish

Spec == Init /\ [][Next]_vars

NextLoop ==
  \/ NewLoopWatcher
  \/ Write
  \/ Teardown
  \/ FlushStart
  \/ FlushStep
  \/ FlushFinish

SpecLoop == Init /\ [][NextLoop]_vars

(* ------------- a callback that notifies two other watchers ------------ *)
\* vm.$watch('a', noop) and vm.$watch('b', () => { vm.a = '1' })
FanMenu ==
  { Cfg(GKey("a"), CNone, TRUE, FALSE, FALSE, FALSE),
    Cfg(GKey("b"), CSet("a", "1"), TRUE, FALSE, FALSE, FALSE) }

NewFanWatcher ==
  /\ pc = "idle"
  /\ Len(ws) < MaxFanWatchers
  /\ \E cfg \in FanMenu :
       Done(create(Event(Cur, "new", "a", Len(ws) + 1), cfg))

NextFan ==
  \/ NewFanWatcher
  \/ Write
  \/ FlushStart
  \/ FlushStep
  \/ FlushFinish

SpecFan == Init /\ [][NextFan]_vars

(* ----------------------- two component instances --------------------- *)
GKeep(k) == [kind |-> "keep", a |-> k, b |-> "a"]

\* The render watcher of instance 1, whose template has a kept-alive child;
\* the render watcher of instance 2; vm1.$watch('b', () => { vm1.a = '1' }).
HooksMenu ==
  { Cfg(GKeep("a"), CNone, FALSE, FALSE, FALSE, TRUE),
    [Cfg(GKey("a"), CNone, FALSE, FALSE, FALSE, TRUE) EXCEPT !.vm = MaxVms],
    Cfg(GKey("b"), CSet("a", "1"), TRUE, FALSE, FALSE, FALSE) }

NewHooksWatcher ==
  /\ pc = "idle"
  /\ Len(ws) < MaxFanWatchers
  /\ \E cfg \in HooksMenu :
       Done(create(Event(Cur, "new", "a", Len(ws) + 1), cfg))

\* Application code calls $destroy() on an instance.
DestroyVm ==
  /\ pc = "idle"
  /\ \E c \in Vms : Done(destroy(Event(Cur, "destroy", "a", c), c))

\* The data of the instances hold "0" or "1".
InitHooks ==
  /\ val \in [Keys -> {"0", "1"}]
  /\ env = Browser
  /\ InitCore
  /\ InitNoObs
  /\ patch = NoPatch
  /\ rnd = NoRnd

\* Application code assigns R[k] = v, v one of "0", "1".
WriteHooks ==
  /\ pc = "idle"
  /\ since.writes < MaxWrites
  /\ \E k \in Keys, v \in {"0", "1"} :
       Done(reactiveSetter([Event(Cur, "write", k, 0) EXCEPT
                              !.ev.same = (v = val[k]),
                              !.since.writes = @ + 1],
                           k, v))

NextHooks ==
  \/ NewHooksWatcher
  \/ WriteHooks
  \/ DestroyVm
  \/ FlushStart
  \/ FlushStep
  \/ FlushFinish

SpecHooks == InitHooks /\ [][NextHooks]_vars

(* ------------------------- synchronous watchers ----------------------- *)
\* vm.$watch('b', () => { vm.a = '1' }, { sync: true }), the same with '0',
\* and vm.$watch(() => vm.a === '1' ? vm.b : vm.a, noop, { sync: true })
SyncMenu ==
  { Cfg(GKey("b"), CSet("a", "1"), TRUE, FALSE, TRUE, FALSE),
    Cfg(GKey("b"), CSet("a", "0"), TRUE, FALSE, TRUE, FALSE),
    Cfg(GCond, CNone, TRUE, FALSE, TRUE, FALSE) }

NewSyncWatcher ==
  /\ pc = "idle"
  /\ Len(ws) < MaxWatchers
  /\ \E cfg \in SyncMenu :
       Done(create(Event(Cur, "new", "a", Len(ws) + 1), cfg))

NextSync ==
  \/ NewSyncWatcher
  \/ Write
  \/ Teardown

SpecSync == Init /\ [][NextSync]_vars

(* ---------- a synchronous watcher whose getter writes a property ------ *)
GCopy(a, b) == [kind |-> "copy", a |-> a, b |-> b]

\* vm.$watch(() => { vm.b = vm.a; return vm.b }, noop, { sync: true }), and
\* vm.$watch('b', noop, { sync: true })
NestMenu ==
  { Cfg(GCopy("a", "b"), CNone, TRUE, FALSE, TRUE, FALSE),
    Cfg(GKey("b"), CNone, TRUE, FALSE, TRUE, FALSE) }

NewNestWatcher ==
  /\ pc = "idle"
  /\ Len(ws) < MaxWatchers
  /\ \E cfg \in NestMenu :
       Done(create(Event(Cur, "new", "a", Len(ws) + 1), cfg))

NextNest ==
  \/ NewNestWatcher
  \/ Write
  \/ Teardown

SpecNest == Init /\ [][NextNest]_vars

(* ------------------------ a computed property ------------------------ *)
GComp(k) == [kind |-> "comp", a |-> k, b |-> "a"]

\* The computed property: computed: { c() { return this.b } }, or one that
\* reads b only when a is "1", or one that throws when b is "1".
ComputedMenu ==
  { Cfg(GKey("b"), CNone, FALSE, TRUE, FALSE, FALSE),
    Cfg(GCond, CNone, FALSE, TRUE, FALSE, FALSE),
    Cfg(GThrow("b"), CNone, FALSE, TRUE, FALSE, FALSE) }

\* The watchers that read it: vm.$watch(() => (this.a, this.c), noop) after
\* this.c and this.a swapped, and a render watcher that does the same.
ConsumerMenu ==
  { Cfg(GComp("a"), CNone, TRUE, FALSE, FALSE, FALSE),
    Cfg(GComp("a"), CNone, FALSE, FALSE, FALSE, TRUE) }

\* initComputed creates the watcher of the computed property; later the
\* watchers that read the property are created.
NewCompWatcher ==
  /\ pc = "idle"
  /\ Len(ws) < MaxWatchers
  /\ \E cfg \in IF Len(ws) = 0 THEN ComputedMenu ELSE ConsumerMenu :
       Done(create(Event(Cur, "new", "a", Len(ws) + 1), cfg))

\* Application code reads the computed property, outside any evaluation.
ReadComputed ==
  /\ pc = "idle"
  /\ Len(ws) >= ComputedId
  /\ Done(computedGetter(Event(Cur, "read", "a", ComputedId), ComputedId))

NextComp ==
  \/ NewCompWatcher
  \/ ReadComputed
  \/ Write
  \/ Teardown
  \/ FlushStart
  \/ FlushStep
  \/ FlushFinish

SpecComp == Init /\ [][NextComp]_vars

(* ---------------- watchers whose getter or callback throws ------------ *)

ErrMenu ==
  { Cfg(GKey("a"), CThrow, TRUE, FALSE, FALSE, FALSE),       \* vm.$watch('a', cb), cb throws
    Cfg(GKey("a"), CNone, TRUE, FALSE, FALSE, FALSE),
    Cfg(GThrow("a"), CNone, FALSE, FALSE, FALSE, TRUE),      \* an internal watcher
    Cfg(GThrow("a"), CNone, TRUE, FALSE, FALSE, FALSE) }     \* vm.$watch(fn, noop), fn throws

\* The environments: a browser, a server with config.errorHandler, a server
\* without.
Envs ==
  {Browser, [inBrowser |-> FALSE, errorHandler |-> TRUE, chain |-> <<>>],
   [inBrowser |-> FALSE, errorHandler |-> FALSE, chain |-> <<>>]}

InitErr ==
  /\ val = [k \in Keys |-> "0"]
  /\ env \in Envs
  /\ InitCore
  /\ InitNoObs
  /\ patch = NoPatch
  /\ rnd = NoRnd

NewErrWatcher ==
  /\ pc = "idle"
  /\ Len(ws) < MaxWatchers
  /\ \E cfg \in ErrMenu :
       Done(create(Event(Cur, "new", "a", Len(ws) + 1), cfg))

\* Application code calls vm.$destroy().
Destroy ==
  /\ pc = "idle"
  /\ Done(destroy(Event(Cur, "destroy", "a", 1), 1))

\* Application code assigns R.a = v: the watchers of ErrMenu read a only.
WriteErr ==
  /\ pc = "idle"
  /\ since.writes < MaxWrites
  /\ \E v \in {"0", "1"} :
       Done(reactiveSetter([Event(Cur, "write", "a", 0) EXCEPT
                              !.ev.same = (v = val["a"]),
                              !.since.writes = @ + 1],
                           "a", v))

NextErr ==
  \/ NewErrWatcher
  \/ WriteErr
  \/ Teardown
  \/ Destroy
  \/ FlushStart
  \/ FlushStep
  \/ FlushFinish

SpecErr == InitErr /\ [][NextErr]_vars

(* -------------------- the scheduler, with fair ticks ------------------ *)
\* Watchers whose getter throws, and watchers whose callback writes the
\* property they watch and then throws.
LiveMenu ==
  { Cfg(GKey("a"), CNone, TRUE, FALSE, FALSE, FALSE),
    Cfg(GThrow("a"), CNone, FALSE, FALSE, FALSE, TRUE),
    Cfg(GKey("a"), CSetThrow("a", "0"), TRUE, FALSE, FALSE, FALSE),
    Cfg(GKey("a"), CSetThrow("a", "0"), FALSE, FALSE, FALSE, FALSE) }

NewLiveWatcher ==
  /\ pc = "idle"
  /\ Len(ws) < MaxWatchers
  /\ \E cfg \in LiveMenu :
       Done(create(Event(Cur, "new", "a", Len(ws) + 1), cfg))

NextLive ==
  \/ NewLiveWatcher
  \/ WriteErr
  \/ FlushStart
  \/ FlushStep
  \/ FlushFinish

\* nextTick (scheduler.js 200-212): the callback of a pending tick begins.
TickRuns ==
  /\ pc = "idle"
  /\ ticks > 0
  /\ ticks' = ticks - 1
  /\ pc' = "loop"
  /\ index' = 0

\* flushSchedulerQueue (scheduler.js 93-135), as the interpreter goes on with
\* it: the loop moves to its next entry, leaves, or the flush ends.
FlushRuns ==
  /\ pc \in {"loop", "post"}
  /\ pc' \in {"loop", "post", "idle"}
  /\ index' \in {0, index, index + 1}
  /\ ticks' \in {0, 1}

cursor == <<pc, index, ticks>>

\* Every callback handed to nextTick is executed, and a flush that has begun
\* goes on until it ends or an exception leaves it.
SpecLive ==
  /\ InitErr
  /\ [][NextLive]_vars
  /\ WF_cursor(TickRuns)
  /\ WF_cursor(FlushRuns)

(* ------------- errors reported to the errorCaptured hooks ------------- *)
\* What an errorCaptured hook does with the error.
HookOutcomes == {"false", "other", "throw"}

\* The hooks of one component (cur.$options.errorCaptured).
HookLists == UNION {[1..n -> HookOutcomes] : n \in 0..MaxHooks}

\* The ancestors of the component of the watchers.
Chains == UNION {[1..n -> HookLists] : n \in 0..MaxAncestors}

CaptureEnvs == {[e EXCEPT !.chain = c] : e \in Envs, c \in Chains}

\* The watchers whose errors handleError is called with.
CaptureMenu ==
  { Cfg(GKey("a"), CThrow, TRUE, FALSE, FALSE, FALSE),
    Cfg(GThrow("a"), CNone, TRUE, FALSE, FALSE, FALSE) }

InitCapture ==
  /\ val = [k \in Keys |-> "1"]
  /\ env \in CaptureEnvs
  /\ InitCore
  /\ InitNoObs
  /\ patch = NoPatch
  /\ rnd = NoRnd

NewCaptureWatcher ==
  /\ pc = "idle"
  /\ Len(ws) < MaxCaptureWatchers
  /\ \E cfg \in CaptureMenu :
       Done(create(Event(Cur, "new", "a", Len(ws) + 1), cfg))

NextCapture ==
  \/ NewCaptureWatcher
  \/ WriteErr
  \/ FlushStart
  \/ FlushStep
  \/ FlushFinish

SpecCapture == InitCapture /\ [][NextCapture]_vars

(* ====================================================================== *)
(* Observer, observe (observer/index.js) and the list methods (array.js)  *)
(* ====================================================================== *)
\* A value is 0 (a primitive) or the number of a container of the heap.
\* heap[o]:
\*   kind    "record" (a plain object), "list" (an Array), "vnode"
\*   ext     Object.isExtensible(o)
\*   isVue   o._isVue
\*   items   the values of the properties of a record / the elements of a list
\*   ob      o.__ob__: the number of its Observer, 0 when it has none
\*   wraps   wraps[i]: times defineReactive was applied to property i
Objs == 1..MaxObjs

ObjVals == 0..MaxObjs

Obj(kind, ext, isVue, items) ==
  [kind |-> kind, ext |-> ext, isVue |-> isVue, items |-> items, ob |-> 0,
   wraps |-> [i \in 1..Len(items) |-> 0]]

\* The state of this part as one record; ret is the value returned.
CurObs ==
  [heap |-> heap, obs |-> obs, shouldObserve |-> shouldObserve, ssr |-> ssr,
   olog |-> olog, ret |-> 0]

CommitObs(h) ==
  /\ UNCHANGED vdomVars
  /\ heap' = h.heap
  /\ obs' = h.obs
  /\ shouldObserve' = h.shouldObserve
  /\ ssr' = h.ssr
  /\ olog' = h.olog

RECURSIVE observe(_, _, _)

\* Observer.observeArray
RECURSIVE observeArray(_, _, _)
observeArray(h, items, i) ==
  IF i > Len(items) THEN h
  ELSE observeArray(observe(h, items[i], FALSE), items, i + 1)

\* defineReactive, lines 183-235: the property becomes a getter/setter pair
defineProperty(h, o, i) ==
  [h EXCEPT !.heap[o].wraps[i] = @ + 1,
            !.olog.wrapped = Append(@, <<o, i>>)]

\* defineReactive(obj, key), called by walk
defineReactive(h, o, i) ==
  defineProperty(observe(h, h.heap[o].items[i], FALSE), o, i)

\* Observer.walk
RECURSIVE walk(_, _, _)
walk(h, o, i) ==
  IF i > Len(h.heap[o].items) THEN h
  ELSE walk(defineReactive(h, o, i), o, i + 1)

\* Observer.constructor, lines 44-51: the fields, and def(value, '__ob__', this)
ObserverInit(h, o) ==
  [h EXCEPT !.obs = Append(@, [value |-> o, vmCount |-> 0]),
            !.heap[o].ob = Len(h.obs) + 1,
            !.olog.created = Append(@, o)]

\* Observer.constructor, lines 53-70
ObserverFill(h, o) ==
  IF h.heap[o].kind = "list"
  THEN observeArray(h, h.heap[o].items, 1)
  ELSE walk(h, o, 1)

\* new Observer(value)
Observer(h, o) == ObserverFill(ObserverInit(h, o), o)

\* observe, lines 148-151
observeReturn(h, v, asRootData) ==
  IF h.heap[v].ob # 0
  THEN [h EXCEPT !.ret = h.heap[v].ob,
                 !.obs[h.heap[v].ob].vmCount = IF asRootData THEN @ + 1 ELSE @]
  ELSE [h EXCEPT !.ret = 0]

\* observe, lines 138-144
observable(h, v) ==
  /\ h.shouldObserve
  /\ ~h.ssr
  /\ h.heap[v].kind \in {"list", "record"}
  /\ h.heap[v].ext
  /\ ~h.heap[v].isVue

\* A faulty observe that does not look for __ob__ when asRootData is set.
observeRootAnew(h, v, asRootData) ==
  IF v = 0 \/ h.heap[v].kind = "vnode" THEN [h EXCEPT !.ret = 0]
  ELSE IF h.heap[v].ob # 0 /\ ~asRootData THEN observeReturn(h, v, asRootData)
  ELSE IF observable(h, v) THEN observeReturn(Observer(h, v), v, asRootData)
  ELSE observeReturn(h, v, asRootData)

\* observe(value, asRootData)
observe(h, v, asRootData) ==
  IF v = 0 \/ h.heap[v].kind = "vnode" THEN [h EXCEPT !.ret = 0]
  ELSE IF h.heap[v].ob # 0 THEN observeReturn(h, v, asRootData)
  ELSE IF observable(h, v) THEN observeReturn(Observer(h, v), v, asRootData)
  ELSE observeReturn(h, v, asRootData)

(* ------------------- array.js (src/unnamed/part_004) ------------------ *)
Reverse(seq) == [i \in 1..Len(seq) |-> seq[Len(seq) + 1 - i]]

Min(a, b) == IF a < b THEN a ELSE b

\* Array.prototype.splice(start, deleteCount, ...items), 0 <= start
nativeSplice(items, args) ==
  SubSeq(items, 1, Min(args[1], Len(items)))
    \o SubSeq(args, 3, Len(args))
    \o SubSeq(items, Min(args[1], Len(items)) + Min(args[2], Len(items) - Min(args[1], Len(items))) + 1,
              Len(items))

\* original.apply(this, args), line 33
original(items, method, args) ==
  CASE method = "push" -> items \o args
    [] method = "unshift" -> args \o items
    [] method = "pop" -> SubSeq(items, 1, Len(items) - 1)
    [] method = "shift" -> SubSeq(items, 2, Len(items))
    [] method = "reverse" -> Reverse(items)
    [] method = "sort" -> SortById(items)
    [] method = "splice" -> nativeSplice(items, args)

\* A faulty choice of the inserted values that forgets unshift.
insertedNoUnshift(method, args) ==
  CASE method = "push" -> args
    [] method = "splice" -> SubSeq(args, 3, Len(args))
    [] OTHER -> <<>>

\* lines 36-46: the values the method inserted
inserted(method, args) ==
  CASE method \in {"push", "unshift"} -> args
    [] method = "splice" -> SubSeq(args, 3, Len(args))
    [] OTHER -> <<>>

\* mutator, lines 33-48 (ob.dep.notify() of line 51 is made by the caller
\* of this operator, on the state of the watchers)
mutator(h, L, method, args) ==
  observeArray([h EXCEPT !.heap[L].items = original(@, method, args)],
               inserted(method, args), 1)

\* What a subscriber finds when its update() is called (observation): the
\* elements of the list and the inserted values that carry an Observer.
worldAt(s, h, L, method, args) ==
  [s EXCEPT !.ev.world =
     [items |-> h.heap[L].items,
      observed |-> {x \in Elems(inserted(method, args)) :
                      x # 0 /\ h.heap[x].ob # 0}]]

\* A faulty mutator that notifies before it does anything else.
mutatorNotifyFirst(s, h, L, method, args) ==
  notify(worldAt(s, h, L, method, args), ObDep(h.heap[L].ob))

\* mutator, line 51: ob.dep.notify(), after lines 33-48
mutatorNotify(s, h, L, method, args) ==
  notify(worldAt(s, mutator(h, L, method, args), L, method, args),
         ObDep(h.heap[L].ob))

(* ------------------------------ the events ---------------------------- *)
\* The containers application code builds: container 1 is a list, the
\* others are of any kind; container o refers to the next one, so that
\* chains and cycles of containers exist.
NextObj(o) == (o % MaxObjs) + 1

ObjMenu(o) ==
  IF o = 1
  THEN { Obj("list", TRUE, FALSE, <<>>),
         Obj("list", TRUE, FALSE, <<NextObj(o)>>) }
  ELSE
  { Obj("list", TRUE, FALSE, <<>>),
    Obj("list", TRUE, FALSE, <<NextObj(o)>>),
    Obj("record", TRUE, FALSE, <<0>>),
    Obj("record", TRUE, FALSE, <<NextObj(o)>>),
    Obj("record", FALSE, FALSE, <<0>>),        \* Object.freeze({...})
    Obj("record", TRUE, TRUE, <<0>>),          \* a component instance
    Obj("vnode", TRUE, FALSE, <<0>>) }

\* The calls of the list methods application code makes on a list.
ListCalls(items) ==
  {<<"push", <<x>>>> : x \in IF Len(items) < MaxLen THEN ObjVals ELSE {}}
    \cup {<<"unshift", <<x>>>> : x \in IF Len(items) < MaxLen THEN ObjVals ELSE {}}
    \cup {<<"splice", <<i, 0, x>>>> :
            i \in 0..Len(items), x \in IF Len(items) < MaxLen THEN ObjVals ELSE {}}
    \cup {<<"splice", <<i, 1>>>> : i \in 0..Len(items)}
    \cup {<<"pop", <<>>>>, <<"shift", <<>>>>, <<"reverse", <<>>>>, <<"sort", <<>>>>}

EventObs(h, op, o, args) ==
  [h EXCEPT !.olog = [NoOlog EXCEPT !.op = op, !.obj = o, !.args = args,
                                    !.had = IF o = 0 THEN 0 ELSE h.heap[o].ob]]

\* The value a call returned is observed in olog.
Returned(h) == [h EXCEPT !.olog.ret = h.ret]

InitObs ==
  /\ val = [k \in Keys |-> "0"]
  /\ env = Browser
  /\ InitCore
  /\ heap \in [Objs -> UNION {ObjMenu(o) : o \in Objs}]
  /\ \A o \in Objs : heap[o] \in ObjMenu(o)
  /\ obs = <<>>
  /\ shouldObserve = TRUE
  /\ ssr \in BOOLEAN
  /\ olog = NoOlog
  /\ patch = NoPatch
  /\ rnd = NoRnd

\* Application code (initData, a setter, ...) calls observe(v, asRootData).
ObserveCall ==
  \E v \in ObjVals, asRootData \in BOOLEAN :
    /\ asRootData /\ v # 0 /\ heap[v].ob # 0 => obs[heap[v].ob].vmCount < MaxRoot
    /\ CommitObs(Returned(observe(EventObs(CurObs, "observe", v, <<>>), v,
                                   asRootData)))
    /\ CommitCore(Event(Cur, "observe", "a", 0))

\* toggleObserving(value)
ToggleObserving ==
  /\ shouldObserve' = ~shouldObserve
  /\ olog' = [NoOlog EXCEPT !.op = "toggle"]
  /\ UNCHANGED <<heap, obs, ssr, vdomVars>>
  /\ CommitCore(Event(Cur, "toggle", "a", 0))

\* Application code calls a mutating method of an observed list (the list
\* it works on is container 1).
ListCall ==
  \E L \in {1} :
    /\ pc = "idle"
    /\ heap[L].kind = "list"
    /\ heap[L].ob # 0
    /\ \E c \in ListCalls(heap[L].items) :
         /\ CommitObs(mutator(EventObs(CurObs, c[1], L, c[2]), L, c[1], c[2]))
         /\ CommitCore(mutatorNotify(Event(Cur, c[1], "a", 0), CurObs,
                                     L, c[1], c[2]))

NextObs ==
  \/ ObserveCall
  \/ ToggleObserving
  \/ ListCall

SpecObs == InitObs /\ [][NextObs]_vars

(* --------------------- watchers that read the list -------------------- *)
GList(d) == [kind |-> "list", a |-> d, b |-> "a"]

\* vm.$watch('list', cb, {sync: true}) and a computed property that reads
\* the list; d is the Dep of the Observer of the list.
ListMenu(d) ==
  { Cfg(GList(d), CNone, TRUE, FALSE, TRUE, FALSE),
    Cfg(GList(d), CNone, FALSE, TRUE, FALSE, FALSE) }

NewListWatcher ==
  /\ pc = "idle"
  /\ Len(ws) < MaxListWatchers
  /\ heap[1].kind = "list"
  /\ heap[1].ob # 0
  /\ \E cfg \in ListMenu(ObDep(heap[1].ob)) :
       Done(create(Event(Cur, "new", "a", Len(ws) + 1), cfg))

\* Application code reads the computed property that reads the list.
ReadList ==
  /\ pc = "idle"
  /\ \E c \in 1..Len(ws) :
       /\ ws[c].lazy
       /\ ws[c].dirty
       /\ Done(evaluate(Event(Cur, "read", "a", c), c))

NextList ==
  \/ ObserveCall
  \/ ToggleObserving
  \/ ListCall
  \/ NewListWatcher
  \/ ReadList

SpecList == InitObs /\ [][NextList]_vars

(* ====================================================================== *)
(* Properties of the scheduler and of defineReactive                      *)
(* ====================================================================== *)
\* Number of times queueWatcher accepted w during the flush.
Requeued(w) ==
  Cardinality({i \in 1..Len(flush.reenq) : flush.reenq[i][1] = w})

\* Number of times queueWatcher accepted w while the flush was running w.
SelfRequeued(w) ==
  Cardinality({i \in 1..Len(flush.reenq) : flush.reenq[i] = <<w, w>>})

\* The flush reached its end and did not issue the update-loop warning.
FlushCompleted == flush.done /\ flush.warned = <<>>

\* C1, as the specification states it: a watcher that is active, not lazy
\* and not sync, and that read a property which was then written with a
\* changed value before the next flush, has run() invoked exactly once in
\* that flush.
C1_Original ==
  flush.done => \A w \in flush.expect : Count(flush.runs, w) = 1

\* C1, as the code has it: such a watcher is in the queue exactly once when
\* the flush begins, and a flush that completes without the update-loop
\* warning invokes its run() once, plus once for every time the watcher is
\* queued again during the flush (exactly once when it is not queued again).
C1_RunOncePerEnqueue ==
  \A w \in flush.expect :
    /\ Count(flush.pre, w) = 1
    /\ FlushCompleted => Count(flush.runs, w) = 1 + Requeued(w)

C1_Witness ==
  /\ FlushCompleted
  /\ \E w \in flush.expect : Requeued(w) = 0 /\ Count(flush.runs, w) = 1
  /\ \E w \in flush.expect : Requeued(w) = 1 /\ Count(flush.runs, w) = 2

C3_LowerIdFirst ==
  \A a \in Elems(flush.pre), b \in Elems(flush.pre) :
    a < b =>
      \A i \in 1..Len(flush.runs) :
        flush.runs[i] = b => \E j \in 1..(i - 1) : flush.runs[j] = a

C3_Witness ==
  /\ flush.done
  /\ Len(flush.raw) >= 2
  /\ flush.raw[1] > flush.raw[2]
  /\ Len(flush.runs) >= 2
  /\ flush.runs[1] < flush.runs[2]

C5_Original ==
  \A w \in Elems(flush.warned) : SelfRequeued(w) = MAX_UPDATE_COUNT

\* C5, as the code has it (circular[id] > MAX_UPDATE_COUNT): the warning
\* names a watcher exactly when its own run() has queued it again
\* MAX_UPDATE_COUNT + 1 times in the flush, not earlier and not later, and
\* the watcher is not run again in that flush.
C5_WarnAfterLimitPlusOne ==
  \A w \in Ids :
    /\ SelfRequeued(w) <= MAX_UPDATE_COUNT + 1
    /\ w \in Elems(flush.warned) <=> SelfRequeued(w) = MAX_UPDATE_COUNT + 1
    /\ w \in Elems(flush.warned) => w \notin Elems(flush.afterWarn)

C5_Witness ==
  /\ flush.done
  /\ \E w \in Elems(flush.warned) :
       Count(flush.runs, w) = MAX_UPDATE_COUNT + 1

\* C6, as the specification states it: after the warning every other watcher
\* that is still pending is run in the same flush.
C6_Original ==
  flush.done /\ flush.warned # <<>> =>
    \A w \in Elems(flush.left) \ Elems(flush.warned) :
      w \in Elems(flush.afterWarn)

\* C6, as the code has it (break): the warning ends the loop.  No watcher is
\* run after it in that flush; the entries still pending are dropped by
\* resetSchedulerState, which leaves the queue and has empty and waiting and
\* flushing false.
C6_WarningEndsLoop ==
  flush.warned # <<>> =>
    /\ flush.afterWarn = <<>>
    /\ pc = "post" \/ flush.done
    /\ flush.done => queue = <<>> /\ has = {} /\ ~waiting /\ ~flushing

C6_Witness ==
  /\ flush.done
  /\ flush.warned # <<>>
  /\ Elems(flush.left) \ Elems(flush.warned) # {}
  /\ Elems(flush.left) \cap Elems(flush.runs) \subseteq Elems(flush.warned)

\* C7: a write of the value the property holds (strictly identical, or NaN
\* over NaN) changes nothing: the value stays, notify() is called on no Dep,
\* update() on no watcher, and nothing is queued.
C7_SameValueNoOp ==
  [][ev'.op = "write" /\ ev'.same =>
       /\ val' = val
       /\ ev'.notified = <<>>
       /\ ev'.updated = <<>>
       /\ ev'.enq = <<>>
       /\ <<subs, ws, queue, has, waiting, ticks>>' =
            <<subs, ws, queue, has, waiting, ticks>>]_vars

C7_Witness ==
  /\ ev.op = "write"
  /\ ev.same
  /\ val[ev.k] = "NaN"
  /\ \E w \in Elems(subs[ev.k]) : ws[w].active /\ ~ws[w].lazy

(* ====================================================================== *)
(* Properties of observe and of the list methods                          *)
(* ====================================================================== *)
\* C8: observe is idempotent on a container.  A call of observe(v) on a
\* container that carries an Observer returns that Observer, constructs no
\* Observer and applies defineReactive to no property; at all times no two
\* Observers are attached to one container, __ob__ refers to the Observer
\* constructed for the container, and no property is wrapped twice.
C8_ObserveIdempotent ==
  /\ olog.op = "observe" /\ olog.had # 0 =>
       /\ olog.ret = olog.had
       /\ olog.created = <<>>
       /\ olog.wrapped = <<>>
  /\ \A i \in 1..Len(obs), j \in 1..Len(obs) :
       obs[i].value = obs[j].value => i = j
  /\ \A o \in Objs :
       /\ heap[o].ob # 0 => heap[o].ob <= Len(obs) /\ obs[heap[o].ob].value = o
       /\ \A i \in 1..Len(heap[o].wraps) : heap[o].wraps[i] <= 1

C8_Witness ==
  /\ olog.op = "observe"
  /\ olog.had # 0
  /\ olog.ret = olog.had
  /\ heap[olog.obj].kind = "record"
  /\ heap[olog.obj].wraps = <<1>>
  /\ heap[olog.obj].items[1] # 0
  /\ heap[heap[olog.obj].items[1]].ob # 0

\* The values a call of push, unshift or splice inserts, by its arguments.
Inserts ==
  IF olog.op = "splice" THEN SubSeq(olog.args, 3, Len(olog.args)) ELSE olog.args

\* The last event was a call of push(x), unshift(x) or splice(i, 0, x).
InsertCall ==
  \/ olog.op \in {"push", "unshift"} /\ Len(olog.args) = 1
  \/ olog.op = "splice" /\ Len(olog.args) = 3 /\ olog.args[2] = 0

\* C9, as the specification states it: a call of push(x), unshift(x) or
\* splice(i, 0, x) on an observed list leaves every inserted x that is a plain
\* record or a list observed, and calls notify() on the Dep of the list's
\* Observer exactly once.
C9_Original ==
  InsertCall =>
    /\ \A i \in 1..Len(Inserts) :
         /\ Inserts[i] # 0
         /\ heap[Inserts[i]].kind \in {"record", "list"}
         /\ ~heap[Inserts[i]].isVue
         => heap[Inserts[i]].ob # 0
    /\ ev.notified = <<ObDep(heap[olog.obj].ob)>>

\* C9, as the code has it: the inserted x is left observed when it is a plain
\* record or a list that observe accepts: extensible, not a component
\* instance, while shouldObserve is set and the code does not run on the
\* server (or when x carried an Observer already).  An Observer is
\* constructed for nothing else, and notify() is called on the Dep of the
\* list's Observer exactly once per call, for each of the list methods.
C9_InsertedObserved ==
  olog.op \in {"push", "unshift", "splice", "pop", "shift", "reverse"} =>
    /\ \A i \in 1..Len(Inserts) :
         Inserts[i] # 0 /\ observable(CurObs, Inserts[i])
           => heap[Inserts[i]].ob # 0
    /\ \A c \in Elems(olog.created) : observable(CurObs, c)
    /\ ev.notified = <<ObDep(heap[olog.obj].ob)>>

C9_Witness ==
  /\ InsertCall
  /\ olog.op = "unshift"
  /\ Inserts[1] # 0
  /\ Inserts[1] \in Elems(olog.created)
  /\ heap[Inserts[1]].ob # 0
  /\ ev.notified = <<ObDep(heap[olog.obj].ob)>>

(* ====================================================================== *)
(* updateChildren (vdom/patch.js: src/unnamed/part_006)                   *)
(* ====================================================================== *)
MaxKey == MaxCh + 1

\* A virtual node: its key (0: undefined), its tag, its backing node elm
\* (0: undefined), its text, and init: its data carries an init hook
\* (data.hook.init), as the placeholder of a component does.  The nodes
\* modelled have no children.  The fields sameVnode also compares (isComment, data,
\* the type of an input) are the same for all the nodes modelled.
VNode(key, tag, elm) ==
  [key |-> key, tag |-> tag, elm |-> elm, text |-> Undefined, init |-> FALSE]

\* vnode.dat: the constructor of VNode (vnode.js 33-77) defines no property
\* of that name, so the read gives undefined
dat(vnode) == Undefined

\* createTextVNode(text): a node without tag (written "#text") and without key
createTextVNode(text) == [VNode(0, "#text", 0) EXCEPT !.text = text]

\* undefined, as an entry of oldCh or as the value of an index out of range
VUndef == VNode(0, "undef", 0)

isDef(v) == v.tag # "undef"

\* ch[i], with the indices of the code (from 0)
At(ch, i) == IF i >= 0 /\ i < Len(ch) THEN ch[i + 1] ELSE VUndef

MaxOf(S) == CHOOSE x \in S : \A y \in S : y <= x

MinOf(S) == CHOOSE x \in S : \A y \in S : x <= y

sameVnode(a, b) == a.key = b.key /\ a.tag = b.tag

\* A faulty createKeyToOldIdx that records the position counted from 1.
createKeyToOldIdxFromOne(children, beginIdx, endIdx) ==
  [k \in 1..MaxKey |->
     IF \E i \in beginIdx..endIdx : At(children, i).key = k
     THEN MaxOf({i \in beginIdx..endIdx : At(children, i).key = k}) + 1
     ELSE -1]

\* createKeyToOldIdx: the map, as a function of the key; -1: no entry
createKeyToOldIdx(children, beginIdx, endIdx) ==
  [k \in 1..MaxKey |->
     IF \E i \in beginIdx..endIdx : At(children, i).key = k
     THEN MaxOf({i \in beginIdx..endIdx : At(children, i).key = k})
     ELSE -1]

\* findIdxInOld; -1: undefined
findIdxInOld(node, oldCh, start, end) ==
  IF \E i \in start..(end - 1) : isDef(At(oldCh, i)) /\ sameVnode(node, At(oldCh, i))
  THEN MinOf({i \in start..(end - 1) :
                isDef(At(oldCh, i)) /\ sameVnode(node, At(oldCh, i))})
  ELSE -1

(* -------- nodeOps: the DOM operations on the children of parentElm ------ *)
nextSibling(dom, elm) ==
  IF \E i \in 1..(Len(dom) - 1) : dom[i] = elm
  THEN dom[(CHOOSE i \in 1..(Len(dom) - 1) : dom[i] = elm) + 1]
  ELSE 0

removeChild(dom, elm) == SelectSeq(dom, LAMBDA e : e # elm)

insertAt(d, elm, ref) ==
  IF ref = 0 THEN Append(d, elm)
  ELSE SubSeq(d, 1, (CHOOSE i \in 1..Len(d) : d[i] = ref) - 1)
         \o <<elm>>
         \o SubSeq(d, CHOOSE i \in 1..Len(d) : d[i] = ref, Len(d))

\* parent.insertBefore(elm, ref): a node that is in the parent is moved
insertBefore(dom, elm, ref) ==
  insertAt(removeChild(dom, elm), elm,
           IF ref = elm THEN nextSibling(dom, elm) ELSE ref)

(* ------------------------------ patch.js ------------------------------ *)
\* A faulty insert that ignores the reference node.
insertAppend(dom, elm, ref) == Append(dom, elm)

\* insert(parent, elm, ref)
insert(dom, elm, ref) ==
  IF ref # 0
  THEN IF ref \in Elems(dom) THEN insertBefore(dom, elm, ref) ELSE dom
  ELSE Append(dom, elm)

\* createComponent, lines 277-293, for a node whose hook makes an instance:
\* the init hook creates and mounts the child instance, initComponent takes
\* its root element as vnode.elm, and insert places it
createComponentInit(P, j, ref) ==
  [P EXCEPT !.inits = Append(@, <<j, Len(P.created)>>),
            !.newCh[j + 1].elm = P.nextElm,
            !.nextElm = @ + 1,
            !.roots = @ \cup {P.nextElm},
            !.dom = insert(@, P.nextElm, ref),
            !.created = Append(@, P.nextElm)]

\* createComponent, lines 271-297: what it returns (undefined is FALSE)
createComponent(vnode) ==
  IF dat(vnode) # Undefined THEN vnode.init ELSE FALSE

\* createElm, lines 195-267: the backing node is made from the tag or text
createElmPlain(P, j, ref) ==
  [P EXCEPT !.newCh[j + 1].elm = P.nextElm,
            !.nextElm = @ + 1,
            !.dom = insert(@, P.nextElm, ref),
            !.created = Append(@, P.nextElm)]

\* createElm(newCh[j], _, parentElm, refElm, false, newCh, j)
createElm(P, j, ref) ==
  IF createComponent(P.newCh[j + 1])
  THEN createComponentInit(P, j, ref)
  ELSE createElmPlain(P, j, ref)

\* nodeOps.setTextContent(elm, text)
setTextContent(P, elm, text) == [P EXCEPT !.setText = Append(@, <<elm, text>>)]

\* A faulty patchText that never touches the text.
patchTextNever(P, oldVnode, vnode) == P

\* patchVnode, lines 699-724, for nodes without children
patchText(P, oldVnode, vnode) ==
  IF vnode.text = Undefined
  THEN IF oldVnode.text # Undefined THEN setTextContent(P, oldVnode.elm, "") ELSE P
  ELSE IF oldVnode.text # vnode.text
  THEN setTextContent(P, oldVnode.elm, vnode.text)
  ELSE P

\* patchVnode(oldCh[i], newCh[j], ...); line 652: the backing node is kept
patchVnode(P, i, j) ==
  patchText([P EXCEPT !.newCh[j + 1].elm = P.oldCh[i + 1].elm,
                      !.patched = Append(@, <<i, j>>)],
            P.oldCh[i + 1], P.newCh[j + 1])

\* A faulty updateChildren that moves also when it is told to remove only.
canMoveInsertBeforeAlways(P, elm, ref) ==
  IF ref # 0 /\ ref \notin Elems(P.dom) THEN [P EXCEPT !.error = TRUE]
  ELSE [P EXCEPT !.dom = insertBefore(@, elm, ref), !.moved = Append(@, elm)]

\* canMove && nodeOps.insertBefore(parentElm, elm, ref)
canMoveInsertBefore(P, elm, ref) ==
  IF P.removeOnly THEN P
  ELSE IF ref # 0 /\ ref \notin Elems(P.dom) THEN [P EXCEPT !.error = TRUE]
  ELSE [P EXCEPT !.dom = insertBefore(@, elm, ref), !.moved = Append(@, elm)]

oldStartVnode(P) == At(P.oldCh, P.oldStartIdx)
oldEndVnode(P) == At(P.oldCh, P.oldEndIdx)
newStartVnode(P) == At(P.newCh, P.newStartIdx)
newEndVnode(P) == At(P.newCh, P.newEndIdx)

\* updateChildren, lines 562-568
idxInOld(P) ==
  IF newStartVnode(P).key # 0
  THEN P.oldKeyToIdx[newStartVnode(P).key]
  ELSE findIdxInOld(newStartVnode(P), P.oldCh, P.oldStartIdx, P.oldEndIdx)

\* updateChildren, lines 573-583: oldCh[idx] is the node with the key
updateMove(P, idx) ==
  IF ~isDef(At(P.oldCh, idx)) THEN [P EXCEPT !.error = TRUE]
  ELSE IF sameVnode(At(P.oldCh, idx), newStartVnode(P))
  THEN canMoveInsertBefore(
         [patchVnode(P, idx, P.newStartIdx) EXCEPT !.oldCh[idx + 1] = VUndef],
         At(P.oldCh, idx).elm, oldStartVnode(P).elm)
  ELSE createElm(P, P.newStartIdx, oldStartVnode(P).elm)

\* updateChildren, lines 569-584
updateKeyed(P) ==
  IF idxInOld(P) = -1
  THEN createElm(P, P.newStartIdx, oldStartVnode(P).elm)
  ELSE updateMove(P, idxInOld(P))

\* updateChildren, line 562
withOldKeyToIdx(P) ==
  IF P.oldKeyToIdx = <<>>
  THEN [P EXCEPT !.oldKeyToIdx =
          createKeyToOldIdx(P.oldCh, P.oldStartIdx, P.oldEndIdx)]
  ELSE P

\* updateChildren, lines 515-587: one iteration of the while loop
updateStep(P) ==
  IF ~isDef(oldStartVnode(P)) THEN [P EXCEPT !.oldStartIdx = @ + 1]
  ELSE IF ~isDef(oldEndVnode(P)) THEN [P EXCEPT !.oldEndIdx = @ - 1]
  ELSE IF sameVnode(oldStartVnode(P), newStartVnode(P))
  THEN [patchVnode(P, P.oldStartIdx, P.newStartIdx) EXCEPT
          !.oldStartIdx = @ + 1, !.newStartIdx = @ + 1]
  ELSE IF sameVnode(oldEndVnode(P), newEndVnode(P))
  THEN [patchVnode(P, P.oldEndIdx, P.newEndIdx) EXCEPT
          !.oldEndIdx = @ - 1, !.newEndIdx = @ - 1]
  ELSE IF sameVnode(oldStartVnode(P), newEndVnode(P))
  THEN [canMoveInsertBefore(patchVnode(P, P.oldStartIdx, P.newEndIdx),
                            oldStartVnode(P).elm,
                            nextSibling(P.dom, oldEndVnode(P).elm)) EXCEPT
          !.oldStartIdx = @ + 1, !.newEndIdx = @ - 1]
  ELSE IF sameVnode(oldEndVnode(P), newStartVnode(P))
  THEN [canMoveInsertBefore(patchVnode(P, P.oldEndIdx, P.newStartIdx),
                            oldEndVnode(P).elm, oldStartVnode(P).elm) EXCEPT
          !.oldEndIdx = @ - 1, !.newStartIdx = @ + 1]
  ELSE [updateKeyed(withOldKeyToIdx(P)) EXCEPT !.newStartIdx = @ + 1]

\* addVnodes
RECURSIVE addVnodes(_, _, _, _)
addVnodes(P, ref, startIdx, endIdx) ==
  IF startIdx > endIdx THEN P
  ELSE addVnodes(createElm(P, startIdx, ref), ref, startIdx + 1, endIdx)

\* removeVnodes (removeAndInvokeRemoveHook and removeNode take the backing
\* node out of its parent)
RECURSIVE removeVnodes(_, _, _)
removeVnodes(P, startIdx, endIdx) ==
  IF startIdx > endIdx THEN P
  ELSE IF isDef(At(P.oldCh, startIdx))
  THEN removeVnodes(
         [P EXCEPT !.dom = removeChild(@, At(P.oldCh, startIdx).elm),
                   !.removed = Append(@, At(P.oldCh, startIdx).elm)],
         startIdx + 1, endIdx)
  ELSE removeVnodes(P, startIdx + 1, endIdx)

\* A faulty end of updateChildren that removes no old child.
updateRestAddOnly(P) ==
  IF P.oldStartIdx > P.oldEndIdx
  THEN addVnodes(P, At(P.newCh, P.newEndIdx + 1).elm, P.newStartIdx, P.newEndIdx)
  ELSE P

\* updateChildren, lines 590-598
updateRest(P) ==
  IF P.oldStartIdx > P.oldEndIdx
  THEN addVnodes(P, At(P.newCh, P.newEndIdx + 1).elm, P.newStartIdx, P.newEndIdx)
  ELSE IF P.newStartIdx > P.newEndIdx
  THEN removeVnodes(P, P.oldStartIdx, P.oldEndIdx)
  ELSE P

\* updateChildren, lines 488-513
updateBegin(old, new, removeOnly) ==
  [NoPatch EXCEPT !.pc = "loop", !.old0 = old, !.new0 = new, !.oldCh = old,
                  !.newCh = new, !.removeOnly = removeOnly,
                  !.oldEndIdx = Len(old) - 1, !.newEndIdx = Len(new) - 1,
                  !.dom = [i \in 1..Len(old) |-> old[i].elm],
                  !.nextElm = Len(old) + 1]

(* ------------------------------ the events ---------------------------- *)
\* The rendered children: node i has key i and backing node i; one of the
\* nodes may have no key.
OldList(n, u) == [i \in 1..n |-> VNode(IF i = u THEN 0 ELSE i, "li", i)]

\* Children with text: text nodes and elements that carry a text; in the new
\* list also the placeholder of a component.
OldTextLists ==
  {[i \in 1..Len(old) |-> [old[i] EXCEPT !.elm = i]] :
     old \in UNION {[1..n -> {createTextVNode("a"),
                              [VNode(0, "li", 0) EXCEPT !.text = "a"]}] :
                      n \in 1..MaxTextCh}}

OldLists == {OldList(n, u) : n \in 0..MaxCh, u \in {0, 2}} \cup OldTextLists

\* The children of the new render: no key occurs twice.
NewNodes == {VNode(k, "li", 0) : k \in 0..MaxKey} \cup {VNode(1, "p", 0)}

NewTextLists ==
  UNION {[1..n -> {createTextVNode("a"), createTextVNode("b"), VNode(0, "li", 0),
                   [VNode(0, "li", 0) EXCEPT !.text = "a"],
                   [VNode(0, "li", 0) EXCEPT !.text = "b"],
                   [VNode(0, "vue-component-1", 0) EXCEPT !.init = TRUE]}] :
           n \in 1..MaxTextCh}

NewLists ==
  {new \in UNION {[1..n -> NewNodes] : n \in 0..MaxCh} :
     \A i \in 1..Len(new), j \in 1..Len(new) :
       new[i].key # 0 /\ new[i].key = new[j].key => i = j}
  \cup NewTextLists

InitPatch ==
  /\ val = [k \in Keys |-> "0"]
  /\ env = Browser
  /\ InitCore
  /\ InitNoObs
  /\ patch = NoPatch
  /\ rnd = NoRnd

\* patchVnode calls updateChildren(elm, oldCh, ch, insertedVnodeQueue, removeOnly)
UpdateChildren ==
  /\ patch.pc = "idle"
  /\ \E old \in OldLists, new \in NewLists, removeOnly \in BOOLEAN :
       patch' = updateBegin(old, new, removeOnly)
  /\ UNCHANGED <<coreVars, obsVars, rnd>>

WhileCond ==
  /\ patch.oldStartIdx <= patch.oldEndIdx
  /\ patch.newStartIdx <= patch.newEndIdx

\* One iteration of the while loop.
UpdateStep ==
  /\ patch.pc = "loop"
  /\ WhileCond
  /\ patch' = [updateStep(patch) EXCEPT
                 !.pc = IF updateStep(patch).error THEN "done" ELSE @]
  /\ UNCHANGED <<coreVars, obsVars, rnd>>

\* The loop is left; the rest of updateChildren runs.
UpdateRest ==
  /\ patch.pc = "loop"
  /\ ~WhileCond
  /\ patch' = [updateRest(patch) EXCEPT !.pc = "done"]
  /\ UNCHANGED <<coreVars, obsVars, rnd>>

NextPatch ==
  \/ UpdateChildren
  \/ UpdateStep
  \/ UpdateRest

SpecPatch == InitPatch /\ [][NextPatch]_vars

(* ====================================================================== *)
(* patch and patchVnode (vdom/patch.js: src/unnamed/part_006)             *)
(* ====================================================================== *)
\* nodeOps.setTextContent(elm, text) on the node whose children are P.dom:
\* setting the text content of a node removes its child nodes.
setTextContentOfRoot(P, text) ==
  [setTextContent(P, P.rootOld.elm, text) EXCEPT !.dom = <<>>]

\* A faulty patchVnode that does not clear the text before it adds children.
patchVnodeAddKeepText(P) ==
  [addVnodes(P, 0, 0, Len(P.newCh) - 1) EXCEPT !.branch = "addVnodes"]

\* patchVnode, lines 705-713: only the new node has children
patchVnodeAdd(P) ==
  [addVnodes(IF P.rootOld.text # Undefined THEN setTextContentOfRoot(P, "") ELSE P,
             0, 0, Len(P.newCh) - 1) EXCEPT !.branch = "addVnodes"]

\* patchVnode, lines 714-716: only the old node has children
patchVnodeRemove(P) ==
  [removeVnodes(P, 0, Len(P.oldCh) - 1) EXCEPT !.branch = "removeVnodes"]

\* patchVnode, lines 699-724
patchVnodeChildren(P, removeOnly) ==
  IF P.rootNew.text = Undefined
  THEN IF P.rootOld.hasCh /\ P.rootNew.hasCh
       THEN [updateBegin(P.rootOld.ch, P.rootNew.ch, removeOnly) EXCEPT
               !.branch = "updateChildren", !.rootOld = P.rootOld,
               !.rootNew = P.rootNew, !.nextElm = P.nextElm]
       ELSE IF P.rootNew.hasCh THEN patchVnodeAdd(P)
       ELSE IF P.rootOld.hasCh THEN patchVnodeRemove(P)
       ELSE IF P.rootOld.text # Undefined
       THEN [setTextContentOfRoot(P, "") EXCEPT !.branch = "clearText"]
       ELSE P
  ELSE IF P.rootOld.text # P.rootNew.text
       THEN [setTextContentOfRoot(P, P.rootNew.text) EXCEPT !.branch = "setText"]
       ELSE P

\* patchVnode, line 652: vnode.elm = oldVnode.elm
patchVnodeBind(oldVnode, vnode) == [vnode EXCEPT !.elm = oldVnode.elm]

\* patchVnode(oldVnode, vnode, insertedVnodeQueue, null, null, removeOnly),
\* for nodes that are not static and not the placeholder of an async
\* component; the backing nodes of the old children are 1, 2, ... and that
\* of oldVnode comes after them
patchVnodeRoot(oldVnode, vnode, removeOnly) ==
  [patchVnodeChildren(
     [NoPatch EXCEPT !.old0 = oldVnode.ch, !.new0 = vnode.ch,
                     !.oldCh = oldVnode.ch, !.newCh = vnode.ch,
                     !.removeOnly = removeOnly,
                     !.rootOld = oldVnode,
                     !.rootNew = patchVnodeBind(oldVnode, vnode),
                     !.dom = [i \in 1..Len(oldVnode.ch) |-> oldVnode.ch[i].elm],
                     !.nextElm = oldVnode.elm + 1],
     removeOnly) EXCEPT
     !.pc = IF oldVnode.hasCh /\ vnode.hasCh /\ vnode.text = Undefined
            THEN "loop" ELSE "done"]

\* emptyNodeAt(elm), lines 113-115: the node of a real element
emptyNodeAt(oldVnode) ==
  VTree(0, oldVnode.tag, oldVnode.elm, Undefined, TRUE, <<>>)

\* createElm(vnode, insertedVnodeQueue, parentElm, refElm) with parentElm
\* null or not: insert (lines 343-354) does nothing without a parent
createElmIn(P, parentElm, ref) ==
  IF parentElm THEN createElm(P, 0, ref)
  ELSE [createElm(P, 0, ref) EXCEPT !.dom = P.dom]

\* A faulty patch that removes the old node before it creates the new one.
patchCreateAfterRemove(P) ==
  createElmIn(IF P.hasParent THEN removeVnodes(P, 0, 0) ELSE P,
              P.hasParent /\ ~P.leaveCb, nextSibling(P.dom, P.rootOld.elm))

\* patch, lines 935-949: the new node is created, and inserted before the
\* next sibling of the old one
patchCreate(P) ==
  createElmIn(P, P.hasParent /\ ~P.leaveCb, nextSibling(P.dom, P.rootOld.elm))

\* patch, lines 981-988: the old node is removed from its parent
patchDestroyOld(P) ==
  IF P.hasParent THEN removeVnodes(P, 0, 0) ELSE P

\* patch, lines 917-949, when the nodes are not the same, or oldVnode is a
\* real element: siblings are the child nodes of the parent of oldVnode.elm
patchReplace(oldVnode, vnode, siblings, leaveCb, hasParent) ==
  [patchCreate(
     [NoPatch EXCEPT !.old0 = <<oldVnode>>, !.new0 = <<vnode>>,
                     !.oldCh = <<oldVnode>>, !.newCh = <<vnode>>,
                     !.rootOld = oldVnode, !.rootNew = vnode,
                     !.leaveCb = leaveCb, !.hasParent = hasParent,
                     !.dom = IF hasParent THEN siblings ELSE <<>>,
                     !.nextElm = Len(siblings) + 1]) EXCEPT
     !.branch = "replace", !.pc = "replace",
     !.rootNew.elm = Len(siblings) + 1]

\* patch(oldVnode, vnode, hydrating, removeOnly), lines 869-949, for defined
\* nodes and no hydration
patchCall(oldVnode, isRealElement, vnode, removeOnly, siblings, leaveCb, hasParent) ==
  IF ~isRealElement /\ sameVnode(oldVnode, vnode)
  THEN patchVnodeRoot(oldVnode, vnode, removeOnly)
  ELSE [patchReplace(IF isRealElement THEN emptyNodeAt(oldVnode) ELSE oldVnode,
                     vnode, siblings, leaveCb, hasParent) EXCEPT
          !.real = isRealElement]

(* ------------------------------ the events ---------------------------- *)
\* The children of the rendered root and of the new root.
TreeOldCh == {OldList(n, 0) : n \in 0..MaxTreeCh}

TreeNewCh ==
  {new \in UNION {[1..n -> {VNode(k, "li", 0) : k \in 1..(MaxTreeCh + 1)}] :
                    n \in 0..MaxTreeCh} :
     \A i \in 1..Len(new), j \in 1..Len(new) : new[i].key = new[j].key => i = j}

\* The rendered root: an element with children, an element without, an
\* element that carries a text, or a text node.  As the only child of its
\* parent its backing node comes after those of its children.
TreeOlds ==
  {VTree(0, "div", Len(ch) + 1, Undefined, TRUE, ch) : ch \in TreeOldCh}
  \cup {VTree(0, "div", 1, text, FALSE, <<>>) : text \in {Undefined, "a"}}
  \cup {VTree(0, "#text", 1, "a", FALSE, <<>>)}

\* The new root: the same kinds, and an element of another tag.
TreeNews ==
  {VTree(0, "div", 0, Undefined, TRUE, ch) : ch \in TreeNewCh}
  \cup {VTree(0, "div", 0, text, FALSE, <<>>) : text \in {Undefined, "a", "b"}}
  \cup {VTree(0, "#text", 0, text, FALSE, <<>>) : text \in {"a", "b"}}
  \cup {VTree(0, "p", 0, Undefined, TRUE, ch) : ch \in TreeNewCh}

\* vm.__patch__(prevVnode, vnode) and vm.__patch__(vm.$el, vnode): the
\* backing node of the old root is one of up to MaxSiblings child nodes of
\* its parent, or has no parent.
Patch ==
  /\ patch.pc = "idle"
  /\ \E oldVnode \in TreeOlds, vnode \in TreeNews, isRealElement \in BOOLEAN,
        removeOnly \in BOOLEAN, n \in 1..MaxSiblings, leaveCb \in BOOLEAN,
        hasParent \in BOOLEAN :
       \E pos \in 1..n :
         /\ isRealElement => oldVnode.tag # "#text" /\ ~removeOnly
         /\ ~isRealElement /\ sameVnode(oldVnode, vnode) =>
              n = 1 /\ ~leaveCb /\ hasParent
         /\ isRealElement \/ ~sameVnode(oldVnode, vnode) => ~removeOnly
         /\ ~hasParent => n = 1
         /\ patch' = patchCall(IF isRealElement \/ ~sameVnode(oldVnode, vnode)
                               THEN [oldVnode EXCEPT !.elm = pos] ELSE oldVnode,
                               isRealElement, vnode, removeOnly,
                               [i \in 1..n |-> i], leaveCb, hasParent)
  /\ UNCHANGED <<coreVars, obsVars, rnd>>

\* patch, lines 981-988: the old node is destroyed.
PatchDestroyOld ==
  /\ patch.pc = "replace"
  /\ patch' = [patchDestroyOld(patch) EXCEPT !.pc = "done"]
  /\ UNCHANGED <<coreVars, obsVars, rnd>>

NextTree ==
  \/ Patch
  \/ PatchDestroyOld
  \/ UpdateStep
  \/ UpdateRest

SpecTree == InitPatch /\ [][NextTree]_vars

(* ====================================================================== *)
(* Properties of updateChildren                                           *)
(* ====================================================================== *)
\* The <<key, tag>> pairs of a child list that occur n times in it.
KeyTagCount(ch, k, tag) ==
  Cardinality({i \in 1..Len(ch) : ch[i].key = k /\ ch[i].tag = tag})

\* Every child of old0 has a key, the keys are pairwise distinct, and new0
\* is a permutation of old0 (the same keys with the same tags).
KeyedPermutation ==
  /\ patch.pc # "idle"
  /\ \A i \in 1..Len(patch.old0) : patch.old0[i].key # 0
  /\ \A i \in 1..Len(patch.old0), j \in 1..Len(patch.old0) :
       patch.old0[i].key = patch.old0[j].key => i = j
  /\ Len(patch.new0) = Len(patch.old0)
  /\ \A k \in 0..MaxKey, tag \in {"li", "p"} :
       KeyTagCount(patch.new0, k, tag) = KeyTagCount(patch.old0, k, tag)

\* C10: when the old children have pairwise distinct keys and the new
\* children are a permutation of them, updateChildren creates no backing node
\* and removes none, at any point of the call; when it is done every child
\* has been patched in place exactly once, and the only other DOM operation
\* made is insertBefore on backing nodes of the old children.
C10_PermutationOnlyMoves ==
  KeyedPermutation =>
    /\ patch.created = <<>>
    /\ patch.removed = <<>>
    /\ ~patch.error
    /\ Elems(patch.moved) \subseteq 1..Len(patch.old0)
    /\ Elems(patch.dom) = 1..Len(patch.old0)
    /\ patch.pc = "done" =>
         /\ Len(patch.patched) = Len(patch.old0)
         /\ \A i \in 1..Len(patch.old0) :
              \E n \in 1..Len(patch.patched) :
                /\ patch.patched[n][1] = i - 1
                /\ patch.new0[patch.patched[n][2] + 1].key = patch.old0[i].key

C10_Witness ==
  /\ KeyedPermutation
  /\ patch.pc = "done"
  /\ Len(patch.old0) = MaxCh
  /\ patch.oldKeyToIdx # <<>>
  /\ Len(patch.moved) >= 2
  /\ patch.created = <<>>
  /\ patch.removed = <<>>

\* Every child of ch has a key and no two children have the same key.
KeysDistinct(ch) ==
  /\ \A i \in 1..Len(ch) : ch[i].key # 0
  /\ \A i \in 1..Len(ch), j \in 1..Len(ch) : ch[i].key = ch[j].key => i = j

\* The backing nodes of a child list, in the order of the list.
ElmsOf(ch) == [i \in 1..Len(ch) |-> ch[i].elm]

\* C11: for old and new children with pairwise distinct keys, when
\* updateChildren has returned with moves enabled, the children of the parent
\* are exactly the backing nodes of the new children in the order of the new
\* list; a new child that is the same node (key and tag) as an old child has
\* the backing node of that old child, and every other new child has a
\* backing node created in this call.
C11_DomIsNewList ==
  ( /\ patch.pc = "done"
    /\ ~patch.removeOnly
    /\ KeysDistinct(patch.old0)
    /\ KeysDistinct(patch.new0) ) =>
    /\ ~patch.error
    /\ patch.dom = ElmsOf(patch.newCh)
    /\ \A j \in 1..Len(patch.new0) :
         IF \E i \in 1..Len(patch.old0) : sameVnode(patch.old0[i], patch.new0[j])
         THEN \E i \in 1..Len(patch.old0) :
                /\ sameVnode(patch.old0[i], patch.new0[j])
                /\ patch.newCh[j].elm = patch.old0[i].elm
         ELSE patch.newCh[j].elm \in Elems(patch.created)

C11_Witness ==
  /\ patch.pc = "done"
  /\ ~patch.removeOnly
  /\ KeysDistinct(patch.old0)
  /\ KeysDistinct(patch.new0)
  /\ Len(patch.old0) = MaxCh
  /\ patch.oldKeyToIdx # <<>>
  /\ patch.moved # <<>>
  /\ patch.created # <<>>
  /\ patch.removed # <<>>
  /\ patch.dom = ElmsOf(patch.newCh)

\* The old and the new children are unkeyed and, position by position, the
\* same node.
SamePositions ==
  /\ patch.pc # "idle"
  /\ Len(patch.new0) = Len(patch.old0)
  /\ \A i \in 1..Len(patch.old0) :
       /\ patch.old0[i].key = 0
       /\ patch.new0[i].key = 0
       /\ sameVnode(patch.old0[i], patch.new0[i])

\* The positions where the old and the new child differ in text.
TextDiffers == {i \in 1..Len(patch.old0) : patch.old0[i].text # patch.new0[i].text}

\* C12: when unkeyed children are, position by position, the same node,
\* patching them creates, removes and moves no backing node; when the call is
\* done each new child has the backing node of the old child of its position,
\* and the DOM mutations made are exactly one setTextContent for each position
\* whose text differs, on the reused backing node, with the new text.
C12_OnlyTextUpdated ==
  SamePositions =>
    /\ patch.created = <<>>
    /\ patch.removed = <<>>
    /\ patch.moved = <<>>
    /\ patch.dom = ElmsOf(patch.old0)
    /\ patch.pc = "done" =>
         /\ ElmsOf(patch.newCh) = ElmsOf(patch.old0)
         /\ Len(patch.setText) = Cardinality(TextDiffers)
         /\ \A i \in TextDiffers :
              \E n \in 1..Len(patch.setText) :
                patch.setText[n] =
                  <<patch.old0[i].elm,
                    IF patch.new0[i].text = Undefined THEN "" ELSE patch.new0[i].text>>

C12_Witness ==
  /\ SamePositions
  /\ patch.pc = "done"
  /\ Len(patch.old0) = MaxTextCh
  /\ Cardinality(TextDiffers) = 1
  /\ Len(patch.setText) = 1
  /\ patch.setText[1][2] = "b"
  /\ ElmsOf(patch.newCh) = ElmsOf(patch.old0)

(* ====================================================================== *)
(* Properties of teardown and of errors in watchers                       *)
(* ====================================================================== *)
\* Watcher w is in the subscriber list of no Dep.
Unsubscribed(w) == \A d \in Deps : w \notin Elems(subs[d])

\* C13: teardown() on an active watcher takes it out of the subscriber list
\* of every Dep and makes it inactive; it takes it out of vm._watchers unless
\* the component is being destroyed, and then vm._watchers is left as it is
\* (so also for the teardowns $destroy makes).  teardown() on an inactive
\* watcher changes nothing.
C13_TeardownUnsubscribes ==
  [][ /\ ( ev'.op = "teardown" /\ ev'.active =>
             /\ ~ws'[ev'.w].active
             /\ \A d \in Deps : ev'.w \notin Elems(subs'[d])
             /\ \A d \in Deps : subs'[d] = RemoveFirst(subs[d], ev'.w)
             /\ IF vm[ws[ev'.w].vm].isBeingDestroyed
                THEN vm' = vm
                ELSE vm' = [vm EXCEPT ![ws[ev'.w].vm].watchers =
                                        RemoveFirst(@, ev'.w)]
             /\ ev'.w \in Elems(vm[ws[ev'.w].vm].watchers)
             /\ \A x \in 1..Len(ws) :
                  x # ev'.w => ws'[x] = ws[x] )
      /\ ( ev'.op = "teardown" /\ ~ev'.active =>
             /\ ~ws[ev'.w].active
             /\ UNCHANGED <<val, subs, target, targetStack, ws, vm, queue, has,
                            circular, waiting, flushing, index,
                            activatedChildren, ticks, pc>> )
      /\ ( ev'.op = "destroy" /\ ~vm[ev'.w].isBeingDestroyed =>
             /\ vm' = [vm EXCEPT ![ev'.w].isBeingDestroyed = TRUE,
                                 ![ev'.w].isDestroyed = TRUE]
             /\ \A x \in Elems(vm[ev'.w].watchers) :
                  ~ws'[x].active /\ (\A d \in Deps : x \notin Elems(subs'[d])) )
    ]_vars

\* A watcher that had subscribed to a Dep has been torn down, and teardown
\* has been called on it again.
C13_Witness ==
  /\ ev.op = "teardown"
  /\ ~ev.active
  /\ ~ws[ev.w].active
  /\ ws[ev.w].deps # <<>>
  /\ Unsubscribed(ev.w)
  /\ ev.w \notin Elems(vm[ws[ev.w].vm].watchers)
  /\ ~vm[ws[ev.w].vm].isBeingDestroyed

\* C14: when the flush reaches a watcher that was torn down while it was
\* pending in the queue, run() calls neither its getter nor its callback,
\* nothing is thrown or reported, no watcher, Dep or value changes, and the
\* flush goes on with the next entry of the queue.
C14_TornDownSkipped ==
  [][ ev'.op = "flushStep" /\ ~ws[ev'.w].active =>
        /\ ev'.w = queue[index + 1]
        /\ ev'.ran = <<ev'.w>>
        /\ ev'.gets = <<>>
        /\ ev'.cbs = <<>>
        /\ ev'.handled = 0
        /\ ~ev'.threw
        /\ UNCHANGED <<val, subs, ws, vm, queue, target, targetStack, waiting,
                       flushing, circular>>
        /\ has' = has \ {ev'.w}
        /\ pc' = "loop"
        /\ index' = index + 1
    ]_vars

\* The flush has passed a torn-down watcher that had subscriptions and has a
\* further entry to run.
C14_Witness ==
  /\ ev.op = "flushStep"
  /\ ~ws[ev.w].active
  /\ ws[ev.w].deps # <<>>
  /\ ev.gets = <<>>
  /\ pc = "loop"
  /\ index < Len(queue)
  /\ ws[queue[index + 1]].active

\* The last event was a loop iteration of the flush in which the callback of
\* the (user) watcher it ran threw.
CbThrewInFlush ==
  /\ ev.op = "flushStep"
  /\ \E n \in 1..Len(ev.thrown) : ev.thrown[n] = <<ev.w, "cb">>
  /\ ws[ev.w].user

\* The error is reported and the loop goes on with the next entry.
ReportedNotInterrupted ==
  /\ ev.handled >= 1
  /\ ~ev.threw
  /\ pc = "loop"
  /\ flushing

GetterThrew(w) == \E n \in 1..Len(ev.thrown) : ev.thrown[n] = <<w, "getter">>

\* C16 as stated: an error thrown by the getter of an internal watcher is
\* first reported through handleError and then rethrown.
C16_Original ==
  \A w \in 1..Len(ws) :
    GetterThrew(w) /\ ~ws[w].user => ev.handled >= 1 /\ ev.threw

\* C16: an error thrown by the getter of an internal (non-user) watcher is
\* rethrown by Watcher.get to the caller of the evaluation without being
\* reported: handleError is not called; the finally clause has restored
\* Dep.target and exchanged the dependency lists.  The error of the getter of
\* a user watcher is reported through handleError.
C16_InternalErrorRethrown ==
  \A w \in 1..Len(ws) :
    /\ GetterThrew(w) /\ ~ws[w].user =>
         /\ ev.threw
         /\ ev.handled = 0
         /\ target = NoTarget
         /\ targetStack = <<>>
         /\ ws[w].newDeps = <<>>
         /\ ws[w].newDepIds = {}
    /\ GetterThrew(w) /\ ws[w].user =>
         /\ ev.handled >= 1
         /\ ev.threw = ~(env.inBrowser \/ env.errorHandler)

\* The flush evaluated an internal watcher whose getter threw.
C16_Witness ==
  /\ ev.op = "flushStep"
  /\ GetterThrew(ev.w)
  /\ ~ws[ev.w].user
  /\ ev.threw
  /\ ev.handled = 0
  /\ env.inBrowser

(* ====================================================================== *)
(* vm._render (src/vue/src/core/instance/proxy.js, 214-284)               *)
(* ====================================================================== *)
\* What a render function does: it returns a tree, an array of one tree, an
\* array of several, or undefined, or it throws.  renderError is absent
\* ("none") or does one of these.
RenderOutcomes == {"vnode", "array1", "arrayN", "undefined", "throw"}
RenderErrorOutcomes == {"none", "vnode", "undefined", "throw"}

\* createEmptyVNode()
createEmptyVNode == [kind |-> "empty", id |-> 0]

\* handleError(e, vm, info) in the environment of the program: it returns, or
\* logError throws the error again.
handleErrorRender(R) ==
  [R EXCEPT !.handled = @ + 1,
            !.threw = handleError([Cur EXCEPT !.exc = TRUE]).exc]

\* What the call of a function that does `outcome` leaves in vnode.
Returned1(R, outcome, kind) ==
  IF outcome \in {"vnode", "array1"} THEN [R EXCEPT !.ret = [kind |-> kind, id |-> R.n]]
  ELSE IF outcome = "arrayN" THEN [R EXCEPT !.ret = [kind |-> "array", id |-> R.n]]
  ELSE [R EXCEPT !.ret = [kind |-> "undefined", id |-> 0]]

\* _render, lines 252-254: the catch clause of the call of renderError
renderErrorCatch(R) ==
  IF R.threw THEN R ELSE [R EXCEPT !.ret = R.vnode]

\* A faulty catch clause that never falls back to the previous tree.
renderCatchNoFallback(R) ==
  IF handleErrorRender(R).threw THEN handleErrorRender(R)
  ELSE [handleErrorRender(R) EXCEPT !.ret = [kind |-> "undefined", id |-> 0]]

\* _render, lines 243-259: the catch clause of the call of render
renderCatch(R) ==
  IF handleErrorRender(R).threw THEN handleErrorRender(R)
  ELSE IF R.renderError = "none" THEN [handleErrorRender(R) EXCEPT !.ret = R.vnode]
  ELSE IF R.renderError = "throw"
  THEN renderErrorCatch(handleErrorRender(handleErrorRender(R)))
  ELSE Returned1(handleErrorRender(R), R.renderError, "errTree")

\* _render, lines 233-262: try, catch, finally
renderTry(R) ==
  IF R.render = "throw"
  THEN [renderCatch(R) EXCEPT !.current = 0]
  ELSE [Returned1(R, R.render, "tree") EXCEPT !.current = 0]

\* _render, lines 263-283
renderTail(R) ==
  IF R.threw THEN [R EXCEPT !.ret = [kind |-> "undefined", id |-> 0]]
  ELSE IF R.ret.kind \in {"tree", "errTree"} THEN R
  ELSE [R EXCEPT !.ret = createEmptyVNode]

\* Vue.prototype._render
render(R, outcome, errOutcome) ==
  renderTail(renderTry(
    [R EXCEPT !.pc = "rendered", !.n = @ + 1, !.current = 1,
              !.render = outcome, !.renderError = errOutcome,
              !.prev = R.vnode, !.ret = [kind |-> "undefined", id |-> 0],
              !.handled = 0, !.threw = FALSE]))

InitRender ==
  /\ val = [k \in Keys |-> "0"]
  /\ env \in Envs
  /\ InitCore
  /\ InitNoObs
  /\ patch = NoPatch
  /\ rnd = NoRnd

\* The render watcher is evaluated: updateComponent calls vm._render().
Render ==
  /\ rnd.pc = "idle"
  /\ rnd.n < MaxRenders
  /\ \E outcome \in RenderOutcomes, errOutcome \in RenderErrorOutcomes :
       rnd' = render(rnd, outcome, errOutcome)
  /\ UNCHANGED <<coreVars, obsVars, patch>>

\* updateComponent goes on: vm._update(vnode) stores the tree in vm._vnode.
\* When _render threw, _update is not called.
Update ==
  /\ rnd.pc = "rendered"
  /\ rnd' = [rnd EXCEPT !.pc = "idle",
                        !.vnode = IF rnd.threw THEN @ ELSE rnd.ret]
  /\ UNCHANGED <<coreVars, obsVars, patch>>

NextRender ==
  \/ Render
  \/ Update

SpecRender == InitRender /\ [][NextRender]_vars

(* ====================================================================== *)
(* Properties of vm._render                                               *)
(* ====================================================================== *)
\* The tree _render falls back to: the previous tree, or the empty node.
Fallback == IF rnd.prev.kind = "null" THEN createEmptyVNode ELSE rnd.prev

C18_Original ==
  \A j \in 1..Len(patch.newCh) :
    patch.newCh[j].init /\ patch.newCh[j].elm \in Elems(patch.created) =>
      /\ \E n \in 1..Len(patch.inits) :
           /\ patch.inits[n][1] = j - 1
           /\ patch.created[patch.inits[n][2] + 1] = patch.newCh[j].elm
      /\ patch.newCh[j].elm \in patch.roots

(* ====================================================================== *)
(* Properties of the scheduling of flushes                                *)
(* ====================================================================== *)
\* C19: in async mode at most one flush is outstanding: at most one
\* flushSchedulerQueue callback is waiting in nextTick, one is waiting exactly
\* when watchers are queued and no flush is in progress, and none is
\* requested while a flush is in progress; every watcher enqueued since the
\* last flush is in the one queue that callback will flush, once.
C19_OneFlushOutstanding ==
  /\ ticks <= 1
  /\ ticks = 1 => waiting /\ ~flushing /\ pc = "idle"
  /\ flushing => ticks = 0 /\ waiting
  /\ ~flushing =>
       /\ (queue # <<>>) = (ticks = 1)
       /\ waiting = (ticks = 1)
       /\ Elems(queue) = since.enq
       /\ has = since.enq
       /\ \A w \in since.enq : Count(queue, w) = 1

\* Two watchers were enqueued by several writes, one of them more than once,
\* and a single flush is scheduled.
C19_Witness ==
  /\ ticks = 1
  /\ Len(queue) = 2
  /\ since.writes >= 2
  /\ since.multi # {}
  /\ ~flushing

(* ====================================================================== *)
(* Properties of the watcher queued during a flush                        *)
(* ====================================================================== *)
\* The entries of the queue x.queue that were pending (behind the cursor)
\* when the insertion x was made, the inserted one at place p left out.
PendingPlaces(x, p) == ((x.index + 2)..Len(x.queue)) \ {p}

\* The insertion x put its watcher at place p of the queue (places count
\* from 1, the running watcher is at place x.index + 1): behind the cursor,
\* behind every pending entry whose id is not greater, ahead of those with
\* a greater id.
PlacedAt(x, p) ==
  /\ p \in (x.index + 2)..Len(x.queue)
  /\ x.queue[p] = x.w
  /\ \A r \in PendingPlaces(x, p) : r < p <=> x.queue[r] <= x.w

\* The watcher of insertion x was run later in the flush.
RunLater(x) == \E r \in (x.n + 1)..Len(flush.runs) : flush.runs[r] = x.w

NestedIn(i, j) ==
  /\ i < j
  /\ ev.evals[i].target = ev.evals[j].w
  /\ Len(ev.evals[i].stack) = Len(ev.evals[j].stack) + 1

SubscribedTo(w) == {d \in Deps : w \in Elems(subs[d])}

\* C22: after each evaluation of an active watcher, the Deps whose
\* subscriber list holds the watcher are exactly the Deps that reported a
\* read to it during that evaluation.
C22_SubsAreReads ==
  \A w \in 1..Len(ws) : ws[w].active => SubscribedTo(w) = ws[w].reads

\* The flush has run a watcher that read a and b in its evaluation before
\* and reads a only now: it is subscribed to a and no longer to b.
C22_Witness ==
  /\ ev.op = "flushStep"
  /\ Len(ev.evals) = 1
  /\ ev.evals[1].w = ev.w
  /\ ws[ev.w].active
  /\ ev.evals[1].before = {"a", "b"}
  /\ ws[ev.w].reads = {"a"}
  /\ SubscribedTo(ev.w) = {"a"}

\* C23: no subscriber list holds the same watcher twice.
C23_NoDuplicateSubscriber ==
  \A d \in Deps : \A w \in 1..Len(ws) : Count(subs[d], w) <= 1

\* The flush has evaluated, for the second time at least, a watcher that
\* reads the computed property and then a, while the computed property
\* itself depends on a: a reported two reads to the watcher in this pass,
\* and lists it once.
C23_Witness ==
  /\ ev.op = "flushStep"
  /\ ws[ev.w].getter.kind = "comp"
  /\ ws[ev.w].active
  /\ "a" \in Elems(ws[ComputedId].deps)
  /\ Len(ev.evals) >= 1
  /\ ev.evals[Len(ev.evals)].w = ev.w
  /\ "a" \in ev.evals[Len(ev.evals)].before
  /\ ~ev.evals[Len(ev.evals)].threw
  /\ Count(subs["a"], ev.w) = 1

(* ====================================================================== *)
(* Properties of Dep.notify                                               *)
(* ====================================================================== *)
\* C24: a call of notify() calls update() on the watchers that were in subs
\* when the call began, each once and in that order, whatever was added to
\* or removed from subs while the call was running.
C24_NotifySnapshot ==
  \A n \in 1..Len(ev.passes) :
    /\ ev.passes[n].done
    /\ ev.passes[n].upd = ev.passes[n].at
    /\ \A w \in Elems(ev.passes[n].at) : Count(ev.passes[n].upd, w) = 1

\* A write of b notified a synchronous watcher whose callback wrote a, and
\* the evaluation that write caused subscribed a second watcher to the Dep
\* of b while the notification of b was running: the second watcher was not
\* updated by that notification.
C24_Witness ==
  /\ ev.op = "write" /\ ev.k = "b"
  /\ Len(ev.passes) = 2
  /\ ev.passes[1].d = "b" /\ ev.passes[2].d = "a"
  /\ ev.passes[1].at = <<1>>
  /\ ev.passes[1].upd = <<1>>
  /\ ev.passes[1].after = <<1, 2>>
  /\ ev.passes[2].upd = <<2>>

(* ====================================================================== *)
(* Properties of Watcher.run                                              *)
(* ====================================================================== *)
\* The comparison c of run() was followed by a call of the callback.
CbCalled(c) == c.m > c.n

\* C25, as the specification has it: run() calls the callback, with the new
\* and the old value, exactly when the value get() returned differs from
\* the stored one under the rule of the property setter (identical values,
\* and NaN over NaN, are unchanged); otherwise the stored value stays.  (The
\* values are primitives and no watcher is deep.)
C25_Original ==
  \A i \in 1..Len(ev.compared) :
    /\ CbCalled(ev.compared[i]) <=>
         ~SameValue(ev.compared[i].new, ev.compared[i].old)
    /\ CbCalled(ev.compared[i]) =>
         ev.args[ev.compared[i].n + 1] =
           <<ev.compared[i].w, ev.compared[i].new, ev.compared[i].old>>
    /\ ~CbCalled(ev.compared[i]) => ev.compared[i].stored = ev.compared[i].old

(* ====================================================================== *)
(* Properties of the end of the flush                                     *)
(* ====================================================================== *)
\* Watcher w is the render watcher of a mounted component that is not
\* destroyed.
WantsUpdated(w) ==
  /\ vm[ws[w].vm].watcher = w
  /\ vm[ws[w].vm].isMounted
  /\ ~vm[ws[w].vm].isDestroyed

\* The 'updated' notifications due for the queue q: one for each entry that
\* WantsUpdated, from the last entry to the first.
RECURSIVE UpdatedFor(_)
UpdatedFor(q) ==
  IF q = <<>> THEN <<>>
  ELSE (IF WantsUpdated(q[Len(q)])
        THEN <<<<"updated", ws[q[Len(q)]].vm, TRUE>>>> ELSE <<>>)
       \o UpdatedFor(SubSeq(q, 1, Len(q) - 1))

\* The 'activated' notifications due for the activated components.
ActivatedFor(q) == [i \in 1..Len(q) |-> <<"activated", q[i], TRUE>>]

\* The hooks the step has called.
HooksCalled == SubSeq(flush'.hooks, Len(flush.hooks) + 1, Len(flush'.hooks))

\* The watcher ids of the 'updated' notifications of a sequence of hooks.
RECURSIVE UpdatedIds(_)
UpdatedIds(h) ==
  IF h = <<>> THEN <<>>
  ELSE (IF h[1][1] = "updated" THEN <<vm[h[1][2]].watcher>> ELSE <<>>)
       \o UpdatedIds(Tail(h))

Descending(seq) == \A i, j \in 1..Len(seq) : i < j => seq[i] >= seq[j]

\* The scheduler is in the state resetSchedulerState leaves, after the step.
ResetAfter ==
  /\ queue' = <<>> /\ has' = {} /\ index' = 0 /\ activatedChildren' = <<>>
  /\ ~waiting' /\ ~flushing'

\* C26, as the specification has it: when the loop of the flush has ended
\* the scheduler state is reset before any notification, the 'activated'
\* notifications come first, then the 'updated' ones, for the mounted, not
\* destroyed components whose render watcher is in the queue, in descending
\* order of the ids of the render watchers.
C26_Original ==
  [][ ev'.op = "flushFinish" =>
        /\ ResetAfter
        /\ HooksCalled = ActivatedFor(activatedChildren) \o UpdatedFor(queue)
        /\ Descending(UpdatedIds(HooksCalled))
    ]_vars

\* C26, as the code has it: when the loop of the flush has ended the
\* scheduler state is reset before any notification, the 'activated'
\* notifications come first, then the 'updated' ones: one for each entry of
\* the queue, from the last to the first, that is the render watcher of a
\* mounted, not destroyed component.
C26_HooksAfterReset ==
  [][ ev'.op = "flushFinish" =>
        /\ ResetAfter
        /\ HooksCalled = ActivatedFor(activatedChildren) \o UpdatedFor(queue)
    ]_vars

\* A flush has ended that called an 'activated' hook and then the 'updated'
\* hooks of two components, the one with the lower render watcher first.
C26_Witness ==
  /\ flush.done
  /\ \E i, j, k \in 1..Len(flush.hooks) :
       /\ i < j /\ j < k
       /\ flush.hooks[i][1] = "activated" /\ flush.hooks[i][3]
       /\ flush.hooks[j][1] = "updated" /\ flush.hooks[j][3]
       /\ flush.hooks[k][1] = "updated" /\ flush.hooks[k][3]
       /\ vm[flush.hooks[j][2]].watcher < vm[flush.hooks[k][2]].watcher

(* ====================================================================== *)
(* Properties of the computed property                                    *)
(* ====================================================================== *)
\* The computed watcher was notified by the step.
ComputedNotified == Count(ev'.updated, ComputedId) > 0

\* The number of times the getter of the computed watcher ran in the step.
ComputedInvoked == Count(ev'.gets, ComputedId)

\* The getter of the computed watcher threw in the step.
ComputedThrew ==
  \E i \in 1..Len(ev'.evals) : ev'.evals[i].w = ComputedId /\ ev'.evals[i].threw

\* What C27 says of a notification and of a read, but for the clearing of
\* the flag: a notification runs no getter and sets the flag; a read runs the
\* getter exactly when the flag is set, once; a read with the flag clear
\* returns the cached value and leaves it; the flag is cleared only by a read.
ComputedReads ==
  /\ ComputedNotified => ComputedInvoked = 0 /\ ws'[ComputedId].dirty
  /\ ComputedInvoked > 0 => ev'.creads # <<>>
  /\ ws[ComputedId].dirty /\ ~ws'[ComputedId].dirty => ComputedInvoked = 1
  /\ ~ws[ComputedId].dirty /\ ws'[ComputedId].dirty => ComputedNotified
  /\ ev'.creads # <<>> =>
       /\ Len(ev'.creads) = 1
       /\ ev'.creads[1][2] = ws[ComputedId].dirty
       /\ ComputedInvoked = (IF ws[ComputedId].dirty THEN 1 ELSE 0)
       /\ ~ws[ComputedId].dirty =>
            /\ ev'.crets = <<ws[ComputedId].value>>
            /\ ws'[ComputedId].value = ws[ComputedId].value

\* C27, as the specification has it: a notification only sets the flag of a
\* lazy watcher; a read of the computed property evaluates only when the
\* flag is set and clears it, so the reads between two notifications invoke
\* the getter at most once and return the cached value, and the first read
\* after a notification recomputes.
C27_Original ==
  [][ Len(ws) >= ComputedId =>
        /\ ComputedReads
        /\ ev'.creads # <<>> => ~ws'[ComputedId].dirty
        /\ Len(ws'[ComputedId].calls) <= 1
    ]_vars

\* C27, as the code has it: the same, but a read clears the flag only when
\* the getter returns; when the getter throws the flag stays set and the
\* next read invokes the getter again. Between two notifications at most one
\* invocation of the getter returns, and it is the last.
C27_ComputedCache ==
  [][ Len(ws) >= ComputedId =>
        /\ ComputedReads
        /\ ev'.creads # <<>> => (ws'[ComputedId].dirty <=> ComputedThrew)
        /\ ev'.creads # <<>> /\ ~ComputedThrew =>
             ev'.crets = <<ws'[ComputedId].value>>
        /\ Len(ws'[ComputedId].calls) = 2 => ws'[ComputedId].calls[1]
    ]_vars

\* The computed property was evaluated by a read after a notification, and
\* now a read has returned the cached value without running the getter.
C27_Witness ==
  /\ Len(ws) >= ComputedId
  /\ ev.op = "read"
  /\ ev.creads = <<<<ComputedId, FALSE, 0>>>>
  /\ ev.gets = <<>>
  /\ ev.crets = <<ws[ComputedId].value>>
  /\ ws[ComputedId].calls = <<FALSE>>
  /\ ws[ComputedId].value # Undefined
  /\ ws[ComputedId].active

\* The watchers, other than the computed watcher, whose getter ran in the
\* last step and read the computed property.
ConsumersEvaluated ==
  {w \in 1..Len(ws) : w # ComputedId /\ Count(ev.gets, w) > 0 /\ ev.creads # <<>>}

\* The getter of the computed watcher threw in the last step.
ComputedThrewLast ==
  \E i \in 1..Len(ev.evals) : ev.evals[i].w = ComputedId /\ ev.evals[i].threw

\* Every subscriber of a Dep that notifies is updated by the step.
SubscribersUpdated ==
  \A k \in Keys :
    Count(ev'.notified, k) > 0 /\ ev'.op = "write" =>
      \A w \in Elems(subs[k]) : Count(ev'.updated, w) > 0

Siblings == [i \in 1..(patch.rootNew.elm - 1) |-> i]
OldElm == patch.rootOld.elm
NewElm == patch.rootNew.elm

\* The new node stands immediately before what was the next sibling of the
\* old node, and the old node is still in place.
NewBesideOld ==
  patch.dom = SubSeq(Siblings, 1, OldElm) \o <<NewElm>>
                \o SubSeq(Siblings, OldElm + 1, Len(Siblings))

\* The new node stands where the old node was, and the old node is gone.
NewInPlaceOfOld == patch.dom = [Siblings EXCEPT ![OldElm] = NewElm]

\* patch was called with an old node that is a real element, or with two
\* virtual nodes that are not the same node.
Replaced ==
  /\ patch.pc \in {"replace", "done"}
  /\ patch.real \/ ~sameVnode(patch.rootOld, patch.rootNew)

\* Replacement as C29 describes it: the new node is created and inserted
\* first, the old node is removed afterwards.
ReplacedInOrder ==
  /\ patch.created = <<NewElm>>
  /\ patch.pc = "replace" => NewBesideOld /\ patch.removed = <<>>
  /\ patch.pc = "done" => NewInPlaceOfOld /\ patch.removed = <<OldElm>>

\* C29, as the specification has it: when patch replaces a node that has a
\* parent, the backing node of the new one is created and inserted
\* immediately before the next sibling of the old one, and only then the old
\* one is removed; at the end the new node is where the old one was.
C29_Original ==
  Replaced /\ patch.hasParent => ReplacedInOrder

\* C29, as the code has it: the same unless the old backing node is in a
\* leaving transition (_leaveCb); then the new backing node is created but
\* not inserted, and the old one is removed.  Without a parent nothing is
\* inserted and nothing is removed.
C29_ReplaceInOrder ==
  Replaced =>
    IF patch.hasParent /\ ~patch.leaveCb THEN ReplacedInOrder
    ELSE /\ patch.created = <<NewElm>>
         /\ NewElm \notin Elems(patch.dom)
         /\ patch.pc = "replace" =>
              /\ patch.removed = <<>>
              /\ patch.dom = IF patch.hasParent THEN Siblings ELSE <<>>
         /\ patch.pc = "done" =>
              IF patch.hasParent
              THEN /\ patch.removed = <<OldElm>>
                   /\ patch.dom = removeChild(Siblings, OldElm)
              ELSE patch.removed = <<>> /\ patch.dom = <<>>

\* The second of three child nodes was replaced: the new node is between
\* the two others and the old one is gone.
C29_Witness ==
  /\ Replaced
  /\ patch.pc = "done"
  /\ patch.hasParent /\ ~patch.leaveCb
  /\ patch.rootOld.tag = "div" /\ patch.rootNew.tag = "p"
  /\ OldElm = 2
  /\ patch.dom = <<1, 4, 3>>
  /\ patch.removed = <<2>>

\* patch was called with two virtual nodes that are the same node.
PatchedInPlace ==
  /\ patch.pc \in {"loop", "replace", "done"}
  /\ ~patch.real
  /\ sameVnode(patch.rootOld, patch.rootNew)

\* The text setTextContent is called with for a new node of text t.
TextFor(t) == IF t = Undefined THEN "" ELSE t

OldElms == {patch.old0[i].elm : i \in 1..Len(patch.old0)}

\* The old backing nodes that are in the parent, in the order they have there.
Survivors == SelectSeq(patch.dom, LAMBDA e : e \in OldElms)

\* The old backing nodes, in the order they had, without those removed.
Unremoved ==
  SelectSeq(ElmsOf(patch.old0), LAMBDA e : e \notin Elems(patch.removed))

\* C31: while updateChildren runs with removeOnly, and when it has ended, no
\* backing node has been moved: the old backing nodes still in the parent
\* are those not removed, in the order they had, and every other node of the
\* parent is one createElm created.
C31_RemoveOnlyKeepsOrder ==
  patch.pc \in {"loop", "done"} /\ patch.branch # "replace" /\ patch.removeOnly =>
    /\ patch.moved = <<>>
    /\ Survivors = Unremoved
    /\ Elems(patch.dom) \ OldElms = Elems(patch.created)
    /\ Len(patch.dom) = Len(Survivors) + Len(patch.created)

\* A call with removeOnly has ended that matched an old child with a new
\* child of another position, created a node and removed one; the old nodes
\* left are in their old order.
C31_Witness ==
  /\ patch.pc = "done"
  /\ patch.removeOnly
  /\ \E q \in 1..Len(patch.patched) :
       patch.patched[q][1] > patch.patched[q][2]
  /\ \E q \in 1..Len(patch.patched) :
       patch.patched[q][1] < patch.patched[q][2]
  /\ patch.created # <<>>
  /\ patch.removed # <<>>
  /\ patch.moved = <<>>
  /\ Len(Survivors) >= 2
  /\ patch.dom # ElmsOf(patch.newCh)

(* ====================================================================== *)
(* Properties of handleError                                              *)
(* ====================================================================== *)
\* The errorCaptured hooks of the ancestors, from hook i of ancestor d on, in
\* the order of the walk: nearest ancestor first.
RECURSIVE HooksFrom(_, _)
HooksFrom(d, i) ==
  IF d > Len(env.chain) THEN <<>>
  ELSE IF i > Len(env.chain[d]) THEN HooksFrom(d + 1, 1)
  ELSE <<<<d, i>>>> \o HooksFrom(d, i + 1)

\* globalHandleError throws: no config.errorHandler and no console to log to.
GlobalThrows == ~env.inBrowser /\ ~env.errorHandler

\* The walk ends with hook h: it returns false; or, when withThrow, it throws
\* and globalHandleError throws.
Stops(h, withThrow) ==
  \/ env.chain[h[1]][h[2]] = "false"
  \/ withThrow /\ env.chain[h[1]][h[2]] = "throw" /\ GlobalThrows

RECURSIVE UpToStop(_, _)
UpToStop(hs, withThrow) ==
  IF hs = <<>> THEN <<>>
  ELSE IF Stops(Head(hs), withThrow) THEN <<Head(hs)>>
  ELSE <<Head(hs)>> \o UpToStop(Tail(hs), withThrow)

\* The calls of globalHandleError due when the hooks `called` were called:
\* one for each hook that threw, and one with the original error at the end
\* unless the last hook ended the walk.
GlobalFor(called, withThrow) ==
  SelectSeq(called, LAMBDA h : env.chain[h[1]][h[2]] = "throw")
    \o (IF called # <<>> /\ Stops(called[Len(called)], withThrow)
        THEN <<>> ELSE <<<<0, 0>>>>)

WithoutTarget(calls) == [q \in 1..Len(calls) |-> <<calls[q][1], calls[q][2]>>]

\* What C32 says of a call of handleError, the walk ending as Stops says.
HandledAs(withThrow) ==
  /\ Len(ev.handles) <= 1
  /\ Len(ev.handles) = 1 =>
       /\ WithoutTarget(ev.captured) = UpToStop(HooksFrom(1, 1), withThrow)
       /\ WithoutTarget(ev.global) = GlobalFor(WithoutTarget(ev.captured), withThrow)
       /\ \A q \in 1..Len(ev.captured) : ev.captured[q][3] = NoTarget
       /\ \A q \in 1..Len(ev.global) : ev.global[q][3] = NoTarget
       /\ ev.handles[1].targetAfter = ev.handles[1].target
       /\ ev.handles[1].stackAfter = ev.handles[1].stack

ListMethods == {"push", "pop", "shift", "unshift", "splice", "sort", "reverse"}

\* The step was a call of a list method whose notification called update()
\* of a subscriber.
UpdatedByListCall == olog'.op \in ListMethods /\ ev'.updated # <<>>

\* The values the call of the step inserted that are records or lists.
InsertedContainers ==
  {x \in Elems(inserted(olog'.op, olog'.args)) :
     x # 0 /\ heap[x].kind \in {"record", "list"}}

\* C33, as the specification has it: when update() of a subscriber is
\* called by the notification of a list method, the list has the elements
\* the method leaves and every inserted record or list carries an Observer.
C33_Original ==
  [][ UpdatedByListCall =>
        /\ ev'.world.items = heap'[olog'.obj].items
        /\ \A x \in InsertedContainers : x \in ev'.world.observed
    ]_vars

\* C33, as the code has it: at that moment the list has the elements the
\* method leaves, and every inserted record or list that observe accepts
\* (extensible, not a component instance, shouldObserve set, not on the
\* server) or that had an Observer carries one; the others carry none, then
\* and afterwards.
C33_AppliedBeforeUpdate ==
  [][ UpdatedByListCall =>
        /\ ev'.world.items = heap'[olog'.obj].items
        /\ \A x \in InsertedContainers :
             x \in ev'.world.observed <=> (observable(CurObs, x) \/ heap[x].ob # 0)
        /\ \A x \in InsertedContainers :
             x \in ev'.world.observed <=> heap'[x].ob # 0
    ]_vars

\* push(x) of a record that had no Observer notified a sync watcher, which
\* was run: the list had x as its last element and x carried the Observer
\* made by the call.
C33_Witness ==
  /\ olog.op = "push"
  /\ ev.updated = <<1>>
  /\ ev.ran = <<1>>
  /\ Len(olog.args) = 1
  /\ olog.args[1] # 0
  /\ olog.args[1] \in Elems(olog.created)
  /\ heap[olog.args[1]].kind = "record"
  /\ olog.args[1] \in ev.world.observed
  /\ ev.world.items = heap[olog.obj].items
  /\ ev.world.items[Len(ev.world.items)] = olog.args[1]

(* ====================================================================== *)
(* Liveness of the scheduler                                              *)
(* ====================================================================== *)
\* The scheduler is idle.
SchedulerIdle == ~waiting /\ ~flushing /\ queue = <<>> /\ has = {}

\* C34, as the specification has it: when every callback handed to nextTick
\* is executed, a scheduler that waits for a flush becomes idle again, and
\* every pending watcher ceases to be pending, also when the getter or the
\* callback of a watcher throws during the flush.
C34_Original ==
  /\ waiting ~> SchedulerIdle
  /\ \A w \in 1..MaxWatchers : (w \in has) ~> (w \notin has)

(* ====================================================================== *)
(* The queue and has                                                      *)
(* ====================================================================== *)
\* The places of the queue whose run has not yet started: all of them before
\* the flush; from the cursor on between two iterations of the loop; behind
\* the cursor once the loop was left inside an iteration (the 'infinite
\* update loop' break, or an exception out of run()).
NotStarted ==
  IF ~flushing THEN 1..Len(queue)
  ELSE IF pc = "loop" THEN (index + 1)..Len(queue)
  ELSE (index + 2)..Len(queue)

\* C35: has holds exactly the ids of the queue entries whose run has not yet
\* started, no id occurs twice among those entries, and during a flush they
\* are in ascending order of id.
C35_QueueInvariant ==
  /\ has = {queue[i] : i \in NotStarted}
  /\ \A i \in NotStarted, j \in NotStarted : queue[i] = queue[j] => i = j
  /\ flushing => \A i \in NotStarted, j \in NotStarted :
                   i < j => queue[i] < queue[j]

\* In a flush, a watcher that has been run is queued again, ahead of an
\* entry that was queued before the flush.
C35_Witness ==
  /\ pc = "loop"
  /\ \E i \in 1..index : \E j \in NotStarted :
       /\ queue[i] = queue[j]
       /\ j + 1 \in NotStarted
       /\ Count(flush.pre, queue[j + 1]) = Count(queue, queue[j + 1])

(* ====================================================================== *)
(* A watcher notified after its run has begun                             *)
(* ====================================================================== *)
\* Watcher w, active, was accepted into the queue by a run of the flush in
\* progress (its own, or that of a later watcher) and has not been run since.
Renotified(w) ==
  /\ w <= Len(ws)
  /\ flushing
  /\ ~flush.done
  /\ ws[w].active
  /\ \E i \in 1..Len(flush.ins) :
       /\ flush.ins[i].w = w
       /\ w \in Elems(SubSeq(flush.runs, 1, flush.ins[i].n))
       /\ ~RunLater(flush.ins[i])

\* C36, as the specification has it: a watcher that is notified after its
\* run() in the current flush has begun is run again (or the flush warns of
\* an infinite update loop and drops it).
C36_Original ==
  \A w \in 1..MaxWatchers : Renotified(w) ~> ~Renotified(w)

\* The part of C36 that holds: at the end of a flush that issued no warning,
\* every watcher accepted into the queue during the flush was run after it
\* was accepted.
RequeuedRunAgain ==
  FlushCompleted =>
    \A i \in 1..Len(flush.ins) : RunLater(flush.ins[i])

(* ====================================================================== *)
(* The 'updated' hook of a component in one flush                         *)
(* ====================================================================== *)
\* Number of 'updated' notifications of component c among the hooks h.
UpdatedCount(h, c) ==
  Cardinality({i \in 1..Len(h) : h[i][1] = "updated" /\ h[i][2] = c})

\* Number of 'updated' notifications due to component c for the queue q: one
\* for each entry that is its render watcher, if it is mounted and not
\* destroyed.
UpdatedDue(q, c) ==
  IF vm[c].watcher \in 1..Len(ws) /\ WantsUpdated(vm[c].watcher)
  THEN Count(q, vm[c].watcher)
  ELSE 0

\* C37, as the specification has it: in one flush the 'updated' hook of a
\* component is invoked at most once.
C37_Original ==
  \A c \in 1..MaxVms : UpdatedCount(flush.hooks, c) <= 1

\* C37, as the code has it: at the end of a flush the 'updated' hook of a
\* mounted, not destroyed component is invoked once for each entry of the
\* queue that is its render watcher, that is, when no warning ended the loop,
\* once for each run of its render watcher in the flush.
C37_UpdatedPerEntry ==
  [][ ev'.op = "flushFinish" =>
        \A c \in 1..MaxVms :
          /\ UpdatedCount(HooksCalled, c) = UpdatedDue(queue, c)
          /\ flush.warned = <<>> /\ UpdatedDue(queue, c) > 0 =>
               UpdatedCount(HooksCalled, c) = Count(flush.runs, vm[c].watcher)
    ]_vars

\* A flush has ended in which the render watcher of a component was run
\* twice and its 'updated' hook invoked twice.
C37_Witness ==
  /\ flush.done
  /\ \E c \in 1..MaxVms :
       /\ UpdatedCount(flush.hooks, c) = 2
       /\ vm[c].watcher \in 1..Len(ws)
       /\ Count(flush.runs, vm[c].watcher) = 2

(* ====================================================================== *)
(* A watcher after teardown                                               *)
(* ====================================================================== *)
\* Watcher w is in the subscriber list of some Dep.
Subscribed(w) == \E d \in Deps : w \in Elems(subs[d])

\* C38, as the specification has it: a watcher that was torn down is in the
\* subscriber list of no Dep, whatever was done after the teardown.
C38_Original ==
  \A w \in 1..Len(ws) : ~ws[w].active => ~Subscribed(w)

\* The part of C38 that holds: a torn-down watcher that is not lazy is in no
\* subscriber list.
TornDownStaysOut ==
  \A w \in 1..Len(ws) : ~ws[w].active /\ ~ws[w].lazy => ~Subscribed(w)

(* ====================================================================== *)
(* Dependencies after an evaluation                                       *)
(* ====================================================================== *)
\* The Deps that reported a read to the watcher of evaluation e while e was
\* in progress (the evaluations nested in it included).
ReadDuring(e) ==
  {ev.deps[i][2] : i \in {j \in (e.from + 1)..e.upto : ev.deps[j][1] = e.w}}

\* C39, as the specification has it: when an evaluation of a watcher that
\* was not torn down completes, the watcher is subscribed to every Dep read
\* during it, also when the watcher was evaluated again inside that
\* evaluation.
C39_Original ==
  \A i \in 1..Len(ev.evals) :
    ev.evals[i].active =>
      ReadDuring(ev.evals[i]) \subseteq ev.evals[i].subsAfter

(* ====================================================================== *)
(* Termination of updateChildren                                          *)
(* ====================================================================== *)
\* The number of children between the cursors, on both lists.
Span(P) == (P.oldEndIdx - P.oldStartIdx) + (P.newEndIdx - P.newStartIdx)

\* The step is an iteration of the while loop that moves no cursor away from
\* the other end of its list and moves one of the four toward it.
Advances ==
  /\ patch'.oldStartIdx >= patch.oldStartIdx
  /\ patch'.oldEndIdx <= patch.oldEndIdx
  /\ patch'.newStartIdx >= patch.newStartIdx
  /\ patch'.newEndIdx <= patch.newEndIdx
  /\ Span(patch') < Span(patch)
  /\ ~patch'.error

\* The old children (indices from 0) that were matched to a new child.
MatchedOld == {patch.patched[n][1] : n \in 1..Len(patch.patched)}

\* updateChildren has returned: the loop was left with a pair of cursors that
\* crossed, every old child that was not matched to a new child was removed
\* (and no other), and every new child has a backing node.
UpdatedChildren ==
  /\ ~patch.error
  /\ patch.oldStartIdx > patch.oldEndIdx \/ patch.newStartIdx > patch.newEndIdx
  /\ \A i \in 1..Len(patch.old0) :
       i - 1 \notin MatchedOld <=> patch.old0[i].elm \in Elems(patch.removed)
  /\ \A j \in 1..Len(patch.newCh) : patch.newCh[j].elm # 0

\* C40: for old and new children whose keys are pairwise distinct or absent,
\* updateChildren terminates: every iteration of the loop moves one of the
\* four cursors toward the other end of its list and none away from it, and
\* the loop goes on only while no pair of cursors has crossed, so the number
\* of children between the cursors bounds the iterations left; when the call
\* has returned a pair of cursors has crossed, the old children not matched
\* are removed and every new child has a backing node.
C40_UpdateChildrenTerminates ==
  /\ [][patch.pc = "loop" /\ WhileCond => Advances]_vars
  /\ [](patch.pc = "loop" /\ WhileCond => Span(patch) >= 0)
  /\ [](patch.pc = "loop" => Span(patch) >= -2)
  /\ [](patch.pc = "done" => UpdatedChildren)

\* A call has returned after a step of each kind: a match at the start, a
\* match at an end moved across, a keyed lookup, a creation and a removal.
C40_Witness ==
  /\ patch.pc = "done"
  /\ Len(patch.old0) = MaxCh
  /\ patch.oldKeyToIdx # <<>>
  /\ patch.moved # <<>>
  /\ patch.created # <<>>
  /\ patch.removed # <<>>
  /\ \E i \in 1..Len(patch.old0) : patch.old0[i].key = 0
  /\ UpdatedChildren

====
